---- MODULE Spec2Model ----
(***************************************************************************)
(* A model of the job-control shell of LabC/myshell.c: the job table       *)
(* (process_list), the reconciliation done by `procs`, the launch of       *)
(* single commands, the signal built-ins, and the history ring.            *)
(*                                                                         *)
(* Two state machines share the module.  Spec is the shell seen from       *)
(* execute(): one action per handler execute() dispatches to, plus the     *)
(* steps the operating system takes on the children.  HistSpec is the      *)
(* part of main() that reads a line, expands `!!` / `!n`, appends to the   *)
(* history ring and hands the line to the parser.                          *)
(***************************************************************************)
EXTENDS Integers, Sequences, FiniteSets, TLC

(* ---- program constants (myshell.c) ---- *)
TERMINATED == -1
RUNNING == 1
SUSPENDED == 0
HISTLEN == 20
MAX_BUF == 200
\* the largest int, and long, of the 32-bit build
INT_MAX == 2147483647

(* ---- bounds of the model ---- *)
\* pids the operating system hands out to the shell's children
MaxPid == 2
\* most entries the job table holds (launches are refused beyond it)
MaxJobs == 3
\* most lines appended to the history (more than the ring holds)
MaxLines == 23
\* most lines read that are over-long or a recall (`!!`, `!n`)
MaxSpecial == 2
\* most entries in the job table while pipelines are run
MaxPipeJobs == 1

Pids == 1..MaxPid
\* program names (arguments[0]) of the launched commands
Names == {"looper"}
\* a built-in typed without its argument (argCount < 2)
NoArg == -1

VARIABLES
    process_list,   \* the job table, head first: records [pid, status, cmd, watched]
    os,             \* the children as the kernel sees them: pid -> [st, ev]
    pc,             \* "prompt" | "wait" (blocked in waitpid(pid, NULL, 0)) |
                    \* "pipeline" (inside executePipeCommands) | "stopped" (by
                    \* a stop signal of its own sending) | "exited"
    waitPid,        \* the pid the shell is blocked on, 0 when not blocked
    exitCode,       \* exit status of the shell once pc = "exited", else -1
    printed,        \* the lines the step just taken wrote for `procs` (<<>> when
                    \* the step was not procs)
    diag,           \* the lines the step just taken wrote to stderr under
                    \* `if (debug)`: records [fn, pid, val]
    debug,          \* int debug: TRUE once main has seen -d as argv[1]
    writes,         \* the status changes the step just taken made in its
                    \* reconciliation: {<<index, old, new>>}
    lastOp,         \* "procs" when the step just taken was procs, "cd" or
                    \* "history" when it was that built-in ("cd|", "history|"
                    \* when the command had a second stage), "quit" or "eof"
                    \* when the loop was left on quit or at the end of the
                    \* input, "updateProcessStatus" or "removal" when TableSpec
                    \* called that function, else "other"
    lastSig         \* pid -> "none" | "stop" | "cont": the signal with which sleep or
                    \* alarm last changed the child's state, no event on the child
                    \* since; "stopSeen" | "contSeen" once the procs call that
                    \* followed has returned (until the next step)

jobvars == <<process_list, os, pc, waitPid, exitCode, printed, diag, debug, writes, lastOp, lastSig>>

VARIABLES
    history,        \* char history[HISTLEN][MAX_BUF]: slot -> stored line
    history_count,
    history_start,
    history_end,
    appended,       \* every line handed to addToHistory so far, in order
    typed,          \* what the last line read was: [kind, n, wraps]; for `!n`
                    \* the number typed is wraps * 2^32 + n
    parsed,         \* the line the last iteration handed to parseCmdLines,
                    \* NullLine when it handed none
    special         \* how many of the lines read were over-long or recalls

histvars == <<history, history_count, history_start, history_end,
              appended, typed, parsed, special>>

VARIABLES
    pipeline,       \* the two-stage command being run, NoPipeline when none:
                    \* [prog, leftIn, leftOut, rightIn, rightOut, blocking, reads]
    ppc,            \* where the parent is in executePipeCommands (or in the main
                    \* of mypipeline), "idle" when in neither
    pipefd,         \* the ends of the pipe the parent holds open: subset of {"r", "w"}
    kid             \* the two children, 1 the left and 2 the right:
                    \* [at, fds, ran, code, rank]

pipevars == <<pipeline, ppc, pipefd, kid>>

VARIABLES
    child,          \* the child of the single command last launched, as far as
                    \* RedirSpec follows it, NoChild when it follows none:
                    \* [pid, inputRedirect, outputRedirect, at, failed, code, ran]
    target          \* the file the outputRedirect of that command names:
                    \* "absent" | "old" (it exists, with its content) |
                    \* "created" | "truncated"

childvars == <<child, target>>

vars == <<jobvars, histvars, pipevars, childvars>>

(* ---------------------------------------------------------------- *)
(* The operating system: the children of the shell                    *)
(* st: "free" (no such child: never forked, or already waited for),   *)
(*     "running", "stopped", "exited", "signaled" (the last two are   *)
(*     zombies: terminated, not yet waited for)                       *)
(* ev: the stop / continue notification waitpid has not yet reported  *)
(* ---------------------------------------------------------------- *)
FreeProc == [st |-> "free", ev |-> "none"]
Zombie(o, p) == o[p].st \in {"exited", "signaled"}
Alive(o, p) == o[p].st \in {"running", "stopped"}

\* kill(pid, sig): -1 with no such process, else 0
KillResult(o, p) == IF p \in Pids /\ o[p].st # "free" THEN 0 ELSE -1

\* what a delivered signal does to a child with the default dispositions
Deliver(o, p, sig) ==
    CASE sig = "SIGTSTP" /\ o[p].st = "running" ->
            [o EXCEPT ![p] = [st |-> "stopped", ev |-> "stopped"]]
      [] sig = "SIGCONT" /\ o[p].st = "stopped" ->
            [o EXCEPT ![p] = [st |-> "running", ev |-> "continued"]]
      [] sig = "SIGKILL" /\ Alive(o, p) ->
            [o EXCEPT ![p] = [st |-> "signaled", ev |-> "none"]]
      [] OTHER -> o

\* the wait status word, by the macro that is true of it; int status = 0
\* satisfies WIFEXITED
StatusZero == "exited"

\* waitpid without WUNTRACED: a stop is not reported
WaitNoHangNoUntraced(o, p, status) ==
    CASE o[p].st = "free" ->
            [res |-> -1, status |-> status, os |-> o]
      [] Zombie(o, p) ->
            [res |-> p, status |-> o[p].st, os |-> [o EXCEPT ![p] = FreeProc]]
      [] o[p].ev = "continued" ->
            [res |-> p, status |-> o[p].ev, os |-> [o EXCEPT ![p].ev = "none"]]
      [] OTHER ->
            [res |-> 0, status |-> status, os |-> o]

\* waitpid(pid, &status, WCONTINUED | WNOHANG | WUNTRACED): the result, the
\* status variable afterwards (written only when a change is reported) and
\* the children afterwards
WaitNoHang(o, p, status) ==
    CASE o[p].st = "free" ->
            [res |-> -1, status |-> status, os |-> o]
      [] Zombie(o, p) ->
            [res |-> p, status |-> o[p].st, os |-> [o EXCEPT ![p] = FreeProc]]
      [] o[p].ev # "none" ->
            [res |-> p, status |-> o[p].ev, os |-> [o EXCEPT ![p].ev = "none"]]
      [] OTHER ->
            [res |-> 0, status |-> status, os |-> o]

(* ---------------------------------------------------------------- *)
(* The job table                                                      *)
(* ---------------------------------------------------------------- *)
RECURSIVE FirstMatch(_, _, _)
\* index of the first entry at or after `from` whose pid is `pid`, 0 if none
FirstMatch(list, from, pid) ==
    IF from > Len(list) THEN 0
    ELSE IF list[from].pid = pid THEN from
    ELSE FirstMatch(list, from + 1, pid)

\* a line written to stderr under `if (debug)`
DiagLine(fn, pid, val) == [fn |-> fn, pid |-> pid, val |-> val]

\* updateProcessStatus handed the head of the table instead of curr
UpdateProcessStatusFromHead(d, list, from, pid, status) ==
    LET k == FirstMatch(list, 1, pid)
    IN  IF k = 0 THEN [list |-> list, err |-> <<>>]
        ELSE [list |-> [list EXCEPT ![k].status = status],
              err |-> IF d THEN <<DiagLine("updateProcessStatus", pid, status)>> ELSE <<>>]

RECURSIVE UpdateProcessStatusBreakInDebug(_, _, _, _, _)
\* updateProcessStatus with its break inside the `if (debug)` block: without
\* -d the loop goes on past the first match
UpdateProcessStatusBreakInDebug(d, list, from, pid, status) ==
    IF from > Len(list) THEN [list |-> list, err |-> <<>>]
    ELSE IF list[from].pid = pid
         THEN LET l2 == [list EXCEPT ![from].status = status]
              IN  IF d THEN [list |-> l2,
                             err |-> <<DiagLine("updateProcessStatus", pid, status)>>]
                  ELSE UpdateProcessStatusBreakInDebug(d, l2, from + 1, pid, status)
         ELSE UpdateProcessStatusBreakInDebug(d, list, from + 1, pid, status)

\* updateProcessStatus(process_list, pid, status), process_list being the
\* node at index `from` and d the value of debug: the first match gets the
\* status and, under -d, a line on stderr; a miss changes and writes nothing
UpdateProcessStatus(d, list, from, pid, status) ==
    LET k == FirstMatch(list, from, pid)
    IN  IF k = 0 THEN [list |-> list, err |-> <<>>]
        ELSE [list |-> [list EXCEPT ![k].status = status],
              err |-> IF d THEN <<DiagLine("updateProcessStatus", pid, status)>> ELSE <<>>]

\* the branches without WIFSIGNALED: a child killed by a signal matches none
StatusForNoSignaled(old, res, status) ==
    IF res = 0 THEN RUNNING
    ELSE IF status = "exited" THEN TERMINATED
    ELSE IF status = "continued" THEN RUNNING
    ELSE IF status = "stopped" THEN SUSPENDED
    ELSE old

\* the branches with a stop taken for a continue
StatusForStopIsRunning(old, res, status) ==
    IF res = 0 THEN RUNNING
    ELSE IF status \in {"exited", "signaled"} THEN TERMINATED
    ELSE IF status \in {"continued", "stopped"} THEN RUNNING
    ELSE old

\* the branches of updateProcessList after the waitpid call: the status the
\* entry is given, `old` when no branch writes
StatusFor(old, res, status) ==
    IF res = 0 THEN RUNNING
    ELSE IF status \in {"exited", "signaled"} THEN TERMINATED
    ELSE IF status = "continued" THEN RUNNING
    ELSE IF status = "stopped" THEN SUSPENDED
    ELSE old

\* the status changes between two versions of the table: <<index, old, new>>
Changes(before, after) ==
    {<<j, before[j].status, after[j].status>> :
        j \in {k \in 1..Len(before) : before[k].status # after[k].status}}

RECURSIVE UpdateFrom(_, _, _, _, _, _, _)
\* the loop of updateProcessList from the node at index i on; `status` is the
\* local variable the waitpid calls of one pass share; log collects the
\* status changes made, err the lines written to stderr
UpdateFrom(d, list, o, i, status, log, err) ==
    IF i > Len(list) THEN [list |-> list, os |-> o, log |-> log, err |-> err]
    ELSE LET w == WaitNoHang(o, list[i].pid, status)
             new == StatusFor(list[i].status, w.res, w.status)
             u == UpdateProcessStatus(d, list, i, list[i].pid, new)
         IN  UpdateFrom(d, u.list, w.os, i + 1, w.status,
                        log \cup Changes(list, u.list), err \o u.err)

\* updateProcessList(&process_list), d being the value of debug
UpdateProcessList(d, list, o) == UpdateFrom(d, list, o, 1, StatusZero, {}, <<>>)

\* addProcess: a new node, RUNNING, at the head (watched is the observer's
\* mark of FairSpec, not a field of the struct)
AddProcess(list, cmd, pid) ==
    <<[pid |-> pid, status |-> RUNNING, cmd |-> cmd, watched |-> FALSE]>> \o list

\* deleteProcess(&process_list, proc), proc being the node at index i and d
\* the value of debug: the table without the node and, under -d, a line on
\* stderr
DeleteProcess(d, list, i) ==
    [list |-> [j \in 1..(Len(list) - 1) |-> IF j < i THEN list[j] ELSE list[j + 1]],
     err |-> IF d THEN <<DiagLine("deleteProcess", list[i].pid, 0)>> ELSE <<>>]

RECURSIVE RemovePassSkip(_, _, _, _)
\* the removal loop stepping from the node that follows the deleted one's
\* successor: the entry right after a removed one is not examined
RemovePassSkip(d, list, i, err) ==
    IF i > Len(list) THEN [list |-> list, err |-> err]
    ELSE IF list[i].status = TERMINATED
         THEN LET del == DeleteProcess(d, list, i)
              IN  RemovePassSkip(d, del.list, i + 1, err \o del.err)
    ELSE RemovePassSkip(d, list, i + 1, err)

RECURSIVE RemovePass(_, _, _, _)
\* the second loop of printProcessList: curr is the node at index i and
\* next was saved before the deletion; err collects the lines written to
\* stderr
RemovePass(d, list, i, err) ==
    IF i > Len(list) THEN [list |-> list, err |-> err]
    ELSE IF list[i].status = TERMINATED
         THEN LET del == DeleteProcess(d, list, i)
              IN  RemovePass(d, del.list, i, err \o del.err)
    ELSE RemovePass(d, list, i + 1, err)

(* ---------------------------------------------------------------- *)
(* The removal loop node by node. The nodes of a table are numbered    *)
(* by their place in it before the loop, 0 is NULL; a heap is          *)
(* [head, next, freed]: *process_list, the next field of every node    *)
(* and the nodes handed to free().                                     *)
(* ---------------------------------------------------------------- *)
HeapOf(list) ==
    [head |-> IF Len(list) = 0 THEN 0 ELSE 1,
     next |-> [n \in 1..Len(list) |-> IF n = Len(list) THEN 0 ELSE n + 1],
     freed |-> {}]

RECURSIVE FindPrev(_, _, _)
\* the while loop of deleteProcess: the node whose next is proc
FindPrev(heap, prev, proc) ==
    IF heap.next[prev] = proc THEN prev
    ELSE FindPrev(heap, heap.next[prev], proc)

\* deleteProcess(&process_list, proc) on the nodes: proc is unlinked, from
\* the head or from its predecessor, and freed
DeleteNode(heap, proc) ==
    IF heap.head = proc
    THEN [heap EXCEPT !.head = heap.next[proc], !.freed = @ \cup {proc}]
    ELSE [heap EXCEPT !.next[FindPrev(heap, heap.head, proc)] = heap.next[proc],
                      !.freed = @ \cup {proc}]

RECURSIVE NodesFrom(_, _)
\* the nodes linked from node n on, in order
NodesFrom(heap, n) ==
    IF n = 0 THEN <<>> ELSE <<n>> \o NodesFrom(heap, heap.next[n])

RECURSIVE RemoveNodesNextAfterDelete(_, _, _, _, _, _)
\* the removal loop reading curr->next after deleteProcess(curr) instead of
\* before it: the link is read from a freed node
RemoveNodesNextAfterDelete(d, list, heap, curr, err, stale) ==
    IF curr = 0
    THEN [list |-> [j \in 1..Len(NodesFrom(heap, heap.head)) |->
                        list[NodesFrom(heap, heap.head)[j]]],
          err |-> err, stale |-> stale]
    ELSE IF list[curr].status = TERMINATED
         THEN RemoveNodesNextAfterDelete(d, list, DeleteNode(heap, curr), heap.next[curr],
                    err \o (IF d THEN <<DiagLine("deleteProcess", list[curr].pid, 0)>>
                            ELSE <<>>),
                    TRUE)
         ELSE RemoveNodesNextAfterDelete(d, list, heap, heap.next[curr], err,
                    stale \/ curr \in heap.freed)

RECURSIVE RemoveNodes(_, _, _, _, _, _)
\* the second loop of printProcessList from the node curr on: next is read
\* from curr, then curr->status, then curr is deleted if TERMINATED; stale
\* becomes true when a node is read that was freed before the read
RemoveNodes(d, list, heap, curr, err, stale) ==
    IF curr = 0
    THEN [list |-> [j \in 1..Len(NodesFrom(heap, heap.head)) |->
                        list[NodesFrom(heap, heap.head)[j]]],
          err |-> err, stale |-> stale]
    ELSE LET next == heap.next[curr]
             read == stale \/ curr \in heap.freed
         IN  IF list[curr].status = TERMINATED
             THEN RemoveNodes(d, list, DeleteNode(heap, curr), next,
                        err \o (IF d THEN <<DiagLine("deleteProcess", list[curr].pid, 0)>>
                                ELSE <<>>),
                        read)
             ELSE RemoveNodes(d, list, heap, next, err, read)

\* the removal loop on a table, d being the value of debug
RemovalLoop(d, list) == RemoveNodes(d, list, HeapOf(list), HeapOf(list).head, <<>>, FALSE)

StatusWord(s) ==
    IF s = RUNNING THEN "Running"
    ELSE IF s = SUSPENDED THEN "Suspended" ELSE "Terminated"

\* the first loop of printProcessList: one line per node
PrintLines(list) ==
    [i \in 1..Len(list) |->
        [pid |-> list[i].pid, name |-> list[i].cmd.name, status |-> StatusWord(list[i].status)]]

(* ---------------------------------------------------------------- *)
(* The history ring                                                   *)
(* A line is [txt, len]: the first len bytes of the text numbered     *)
(* txt, its line terminator included.                                 *)
(* ---------------------------------------------------------------- *)
\* the empty string of a slot never written (a zeroed global)
EmptyLine == [txt |-> 0, len |-> 0]
\* the NULL getHistoryCommand returns
NullLine == [txt |-> -1, len |-> 0]
\* lengths of the lines typed: a short one, and one longer than a slot
LineLens == {3, MAX_BUF + 50}
OverLong(len) == len > MAX_BUF - 1

\* strncpy(dst, cmd, MAX_BUF - 1); dst[MAX_BUF - 1] = '\0'
Strncpy(cmd) ==
    [txt |-> cmd.txt, len |-> IF cmd.len < MAX_BUF - 1 THEN cmd.len ELSE MAX_BUF - 1]

\* addToHistory that does not advance history_start once the ring is full
AddToHistoryNoEvict(cmd) ==
    /\ history' = [history EXCEPT ![history_end] = Strncpy(cmd)]
    /\ history_end' = (history_end + 1) % HISTLEN
    /\ history_count' = IF history_count < HISTLEN THEN history_count + 1 ELSE history_count
    /\ history_start' = history_start

\* addToHistory advancing history_end without the modulo
AddToHistoryNoWrap(cmd) ==
    /\ history' = [history EXCEPT ![history_end % HISTLEN] = Strncpy(cmd)]
    /\ history_end' = history_end + 1
    /\ history_count' = IF history_count < HISTLEN THEN history_count + 1 ELSE history_count
    /\ history_start' = IF history_count < HISTLEN THEN history_start
                        ELSE (history_start + 1) % HISTLEN

\* addToHistory(cmd)
AddToHistory(cmd) ==
    /\ history' = [history EXCEPT ![history_end] = Strncpy(cmd)]
    /\ history_end' = (history_end + 1) % HISTLEN
    /\ IF history_count < HISTLEN
       THEN history_count' = history_count + 1 /\ history_start' = history_start
       ELSE history_count' = history_count /\ history_start' = (history_start + 1) % HISTLEN

\* printHistory: the lines written, <<number, text>>
PrintHistory ==
    [i \in 1..history_count |-> <<i, history[(history_start + (i - 1)) % HISTLEN]>>]

\* getHistoryCommand taking the slot after the one asked for
GetHistoryCommandOffByOne(index) ==
    IF index < 1 \/ index > history_count THEN NullLine
    ELSE history[(history_start + index) % HISTLEN]

\* getHistoryCommand(index)
GetHistoryCommand(index) ==
    IF index < 1 \/ index > history_count THEN NullLine
    ELSE history[(history_start + index - 1) % HISTLEN]

HistInit ==
    /\ history = [i \in 0..(HISTLEN - 1) |-> EmptyLine]
    /\ history_count = 0
    /\ history_start = 0
    /\ history_end = 0
    /\ appended = <<>>
    /\ typed = [kind |-> "none", n |-> 0, wraps |-> 0]
    /\ parsed = NullLine
    /\ special = 0

(* ---------------------------------------------------------------- *)
(* main(): one iteration of the loop, from readInput to parseCmdLines *)
(* ---------------------------------------------------------------- *)
\* the line `!!` or `!n` as typed
BangForm == [txt |-> -2, len |-> 3]

\* the iteration appending the line as typed, not the line recalled
AppendAndParseTyped(input) ==
    /\ AddToHistory(IF typed'.kind = "line" THEN input ELSE BangForm)
    /\ appended' = Append(appended, input)
    /\ parsed' = input

\* the rest of the iteration once input holds the line to run
AppendAndParse(input) ==
    /\ AddToHistory(input)
    /\ appended' = Append(appended, input)
    /\ parsed' = input

\* a line that is neither `!!` nor `!` and a digit
ReadLine(len) ==
    /\ Len(appended) < MaxLines
    /\ OverLong(len) => special < MaxSpecial
    /\ typed' = [kind |-> "line", n |-> 0, wraps |-> 0]
    /\ special' = IF OverLong(len) THEN special + 1 ELSE special
    /\ AppendAndParse([txt |-> Len(appended) + 1, len |-> len])
    /\ UNCHANGED <<jobvars, pipevars, childvars>>

\* a failed recall: the diagnostic, then continue
RecallFails ==
    /\ parsed' = NullLine
    /\ UNCHANGED <<history, history_count, history_start, history_end, appended>>

\* the line is exactly `!!`
ReadBangBang ==
    /\ Len(appended) < MaxLines
    /\ special < MaxSpecial
    /\ typed' = [kind |-> "!!", n |-> 0, wraps |-> 0]
    /\ special' = special + 1
    /\ LET last_cmd == GetHistoryCommand(history_count)
       IN  IF last_cmd # NullLine THEN AppendAndParse(last_cmd) ELSE RecallFails
    /\ UNCHANGED <<jobvars, pipevars, childvars>>

\* atoi keeping the low 32 bits of a number that does not fit
AtoiLowBits(wraps, low) == low

\* atoi of the digits of the number wraps * 2^32 + low (0 <= low < 2^31) in
\* the 32-bit build of the Makefile (-m32): atoi is strtol converted to int,
\* long has 32 bits, and strtol gives LONG_MAX for a number that does not fit
Atoi(wraps, low) == IF wraps > 0 THEN INT_MAX ELSE low

\* the line is `!` and digits: index = atoi(&input[1])
ReadBangN(wraps, low) ==
    /\ Len(appended) < MaxLines
    /\ special < MaxSpecial
    /\ typed' = [kind |-> "!n", n |-> low, wraps |-> wraps]
    /\ special' = special + 1
    /\ LET index == Atoi(wraps, low)
           cmd == GetHistoryCommand(index)
       IN  IF cmd # NullLine THEN AppendAndParse(cmd) ELSE RecallFails
    /\ UNCHANGED <<jobvars, pipevars, childvars>>

\* the numbers typed after `!`
RecallIndexes == {0, 1, 2, history_count - 1, history_count, history_count + 1} \cap Nat

HistNext ==
    \/ \E len \in LineLens : ReadLine(len)
    \/ ReadBangBang
    \/ \E wraps \in {0, 1}, low \in RecallIndexes : ReadBangN(wraps, low)


(* ---------------------------------------------------------------- *)
(* Initial state: main() before the first prompt                      *)
(* ---------------------------------------------------------------- *)
JobInit ==
    /\ process_list = <<>>
    /\ os = [p \in Pids |-> FreeProc]
    /\ pc = "prompt"
    /\ waitPid = 0
    /\ exitCode = -1
    /\ printed = <<>>
    /\ diag = <<>>
    /\ debug = FALSE
    /\ writes = {}
    /\ lastOp = "other"
    /\ lastSig = [p \in Pids |-> "none"]

NoSig == [p \in Pids |-> "none"]

\* lastSig once a command other than procs starts, and once procs has returned
Forget(sig) == [p \in Pids |-> IF sig[p] \in {"stop", "cont"} THEN sig[p] ELSE "none"]
Seen(sig) ==
    [p \in Pids |-> IF sig[p] = "stop" THEN "stopSeen"
                    ELSE IF sig[p] = "cont" THEN "contSeen" ELSE "none"]

(* ---------------------------------------------------------------- *)
(* executeSingleCommand                                               *)
(* ---------------------------------------------------------------- *)
\* the parent branch of executeSingleCommand with the debug block put
\* around the wait as well: a foreground command is waited for under -d only
ParentBranchWaitInDebug(d, list, name, blocking, pid) ==
    [list |-> AddProcess(list, [name |-> name, blocking |-> blocking], pid),
     err |-> IF d THEN <<DiagLine("PID", pid, 0), DiagLine("Executing command", pid, 0),
                         DiagLine("Blocking", pid, IF blocking THEN 1 ELSE 0)>>
             ELSE <<>>,
     wait |-> d /\ blocking]

\* the parent branch registering background commands only: a command that
\* is waited for gets no entry
ParentBranchBackgroundOnly(d, list, name, blocking, pid) ==
    [list |-> IF blocking THEN list
              ELSE AddProcess(list, [name |-> name, blocking |-> blocking], pid),
     err |-> IF d THEN <<DiagLine("PID", pid, 0), DiagLine("Executing command", pid, 0),
                         DiagLine("Blocking", pid, IF blocking THEN 1 ELSE 0)>>
             ELSE <<>>,
     wait |-> blocking]

\* the parent branch of executeSingleCommand, d being the value of debug:
\* addProcess, under -d three lines on stderr, and whether waitpid is called
ParentBranch(d, list, name, blocking, pid) ==
    [list |-> AddProcess(list, [name |-> name, blocking |-> blocking], pid),
     err |-> IF d THEN <<DiagLine("PID", pid, 0), DiagLine("Executing command", pid, 0),
                         DiagLine("Blocking", pid, IF blocking THEN 1 ELSE 0)>>
             ELSE <<>>,
     wait |-> blocking]

\* fork succeeds with a pid the kernel has free; the parent registers the
\* entry and, when blocking, enters waitpid(pid, NULL, 0)
ForkSingle(name, blocking, pid) ==
    /\ pc = "prompt"
    /\ Len(process_list) < MaxJobs
    /\ os[pid].st = "free"
    /\ os' = [os EXCEPT ![pid] = [st |-> "running", ev |-> "none"]]
    /\ LET parent == ParentBranch(debug, process_list, name, blocking, pid)
       IN  /\ process_list' = parent.list
           /\ diag' = parent.err
           /\ pc' = IF parent.wait THEN "wait" ELSE "prompt"
           /\ waitPid' = IF parent.wait THEN pid ELSE 0
    /\ printed' = <<>>
    /\ UNCHANGED debug
    /\ writes' = {}
    /\ lastOp' = "other"
    /\ lastSig' = [Forget(lastSig) EXCEPT ![pid] = "none"]
    /\ UNCHANGED exitCode
    /\ UNCHANGED <<histvars, pipevars>>

\* executeSingleCommand with the steps of the child left to ChildExits
ExecuteSingleCommand(name, blocking, pid) ==
    /\ ForkSingle(name, blocking, pid)
    /\ UNCHANGED childvars

\* fork fails: perror, exit(1)
ForkFails ==
    /\ pc = "prompt"
    /\ pc' = "exited"
    /\ exitCode' = 1
    /\ printed' = <<>>
    /\ diag' = <<>>
    /\ UNCHANGED debug
    /\ writes' = {}
    /\ lastOp' = "other"
    /\ process_list' = <<>>
    /\ os' = [p \in Pids |-> FreeProc]
    /\ lastSig' = NoSig
    /\ UNCHANGED waitPid
    /\ UNCHANGED <<histvars, pipevars, childvars>>

\* the blocking wait with WUNTRACED: a stop of the child releases the shell
WaitReturnsUntraced ==
    /\ pc = "wait"
    /\ Zombie(os, waitPid) \/ os[waitPid].ev = "stopped"
    /\ os' = IF Zombie(os, waitPid) THEN [os EXCEPT ![waitPid] = FreeProc]
             ELSE [os EXCEPT ![waitPid].ev = "none"]
    /\ pc' = "prompt"
    /\ waitPid' = 0
    /\ UNCHANGED <<process_list, exitCode, printed, diag, debug, writes, lastOp, lastSig>>
    /\ UNCHANGED <<histvars, pipevars, childvars>>

\* the blocking wait as waitpid(-1, NULL, 0): it returns with whichever child
\* has terminated, collected
WaitReturnsAny ==
    /\ pc = "wait"
    /\ \E p \in Pids :
        /\ Zombie(os, p)
        /\ os' = [os EXCEPT ![p] = FreeProc]
    /\ pc' = "prompt"
    /\ waitPid' = 0
    /\ UNCHANGED <<process_list, exitCode, printed, diag, debug, writes, lastOp, lastSig>>
    /\ UNCHANGED <<histvars, pipevars, childvars>>

\* waitpid(pid, NULL, 0) returns: the child is a zombie and is collected; a
\* stop of the child is not reported to a wait without WUNTRACED
WaitReturns ==
    /\ pc = "wait"
    /\ Zombie(os, waitPid)
    /\ os' = [os EXCEPT ![waitPid] = FreeProc]
    /\ pc' = "prompt"
    /\ waitPid' = 0
    /\ UNCHANGED <<process_list, exitCode, printed, diag, debug, writes, lastOp, lastSig>>
    /\ UNCHANGED <<histvars, pipevars, childvars>>

(* ---------------------------------------------------------------- *)
(* procs: printProcessList                                            *)
(* ---------------------------------------------------------------- *)
\* printProcessList with its print loop ahead of the reconciliation: the
\* lines show the statuses the entries had before the call
PrintProcessListPrintFirst(d, list, o) ==
    LET u == UpdateProcessList(d, list, o)
        r == RemovePass(d, u.list, 1, <<>>)
    IN  [list |-> r.list, os |-> u.os, log |-> u.log,
         out |-> PrintLines(list), err |-> u.err \o r.err]

\* printProcessList(&process_list), d being the value of debug: the
\* reconciliation, the lines printed, then the removal loop
PrintProcessList(d, list, o) ==
    LET u == UpdateProcessList(d, list, o)
        r == RemovePass(d, u.list, 1, <<>>)
    IN  [list |-> r.list, os |-> u.os, log |-> u.log,
         out |-> PrintLines(u.list), err |-> u.err \o r.err]

Procs ==
    /\ pc = "prompt"
    /\ lastOp' = "procs"
    /\ LET p == PrintProcessList(debug, process_list, os)
       IN  /\ os' = p.os
           /\ printed' = p.out
           /\ diag' = p.err
           /\ writes' = p.log
           /\ process_list' = p.list
    /\ UNCHANGED debug
    /\ lastSig' = Seen(lastSig)
    /\ UNCHANGED <<pc, waitPid, exitCode>>
    /\ UNCHANGED <<histvars, pipevars, childvars>>

(* ---------------------------------------------------------------- *)
(* alarm, blast, sleep                                                *)
(* ---------------------------------------------------------------- *)
\* kill(0, sig) as the children feel it: every process of the shell's
\* process group is signalled, and the children never leave that group
GroupDeliver(o, sig) == [p \in Pids |-> Deliver(o, p, sig)[p]]

\* lastSig after a signal to the group: what `sleep <pid>` or `alarm <pid>`
\* did to a child no longer stands once the group signal has changed it
GroupForget(sig, o, o2) ==
    [p \in Pids |-> IF o2[p] # o[p] THEN "none" ELSE Forget(sig)[p]]

\* the handler with an argument atoi turns into 0 (`0`, or text that
\* is no number): kill(0, sig) signals the process group of the shell, the
\* shell included.  SIGKILL ends the shell and its children; SIGCONT resumes
\* the stopped children; SIGTSTP stops the children and the shell, or is
\* discarded when the process group is orphaned
SignalGroup(sig) ==
    /\ pc = "prompt"
    /\ lastOp' = "other"
    /\ printed' = <<>>
    /\ diag' = <<>>
    /\ UNCHANGED debug
    /\ writes' = {}
    /\ \/ /\ sig = "SIGKILL"
          /\ pc' = "exited"
          /\ exitCode' = 128 + 9
          /\ process_list' = <<>>
          /\ os' = [p \in Pids |-> FreeProc]
          /\ lastSig' = NoSig
       \/ /\ sig = "SIGCONT"
          /\ os' = GroupDeliver(os, sig)
          /\ lastSig' = GroupForget(lastSig, os, os')
          /\ UNCHANGED <<process_list, pc, exitCode>>
       \/ /\ sig = "SIGTSTP"
          /\ \/ os' = os /\ pc' = pc
             \/ os' = GroupDeliver(os, sig) /\ pc' = "stopped"
          /\ lastSig' = GroupForget(lastSig, os, os')
          /\ UNCHANGED <<process_list, exitCode>>
    /\ UNCHANGED waitPid
    /\ UNCHANGED <<histvars, pipevars, childvars>>

\* the shell, stopped by its own kill(0, SIGTSTP), is continued from outside
\* and the handler returns
ShellContinued ==
    /\ pc = "stopped"
    /\ pc' = "prompt"
    /\ UNCHANGED <<process_list, os, waitPid, exitCode, printed, diag, debug, writes, lastOp, lastSig>>
    /\ UNCHANGED <<histvars, pipevars, childvars>>

\* the handler recording in the table what its signal does to the job
SignalOneWritesStatus(sig, arg) ==
    /\ pc = "prompt"
    /\ os' = IF arg # NoArg /\ KillResult(os, arg) = 0 THEN Deliver(os, arg, sig) ELSE os
    /\ lastSig' = Forget(lastSig)
    /\ process_list' =
          IF arg = NoArg \/ KillResult(os, arg) = -1 THEN process_list
          ELSE UpdateProcessStatus(debug, process_list, 1, arg,
                    IF sig = "SIGTSTP" THEN SUSPENDED
                    ELSE IF sig = "SIGCONT" THEN RUNNING ELSE TERMINATED).list
    /\ printed' = <<>>
    /\ diag' = <<>>
    /\ UNCHANGED debug
    /\ writes' = {}
    /\ lastOp' = "other"
    /\ UNCHANGED <<pc, waitPid, exitCode>>
    /\ UNCHANGED <<histvars, pipevars, childvars>>

\* the common shape of the three handlers with the argument missing or a
\* number other than 0: without an argument nothing is sent; otherwise
\* kill(pid, sig), whose failure is only reported
SignalOne(sig, arg) ==
    /\ pc = "prompt"
    /\ lastOp' = "other"
    /\ UNCHANGED <<process_list, pc, waitPid, exitCode>>
    /\ os' = IF arg # NoArg /\ KillResult(os, arg) = 0 THEN Deliver(os, arg, sig) ELSE os
    /\ lastSig' =
          IF arg = NoArg \/ os' = os THEN Forget(lastSig)
          ELSE [Forget(lastSig) EXCEPT ![arg] =
                    IF sig = "SIGTSTP" THEN "stop"
                    ELSE IF sig = "SIGCONT" THEN "cont" ELSE "none"]
    /\ printed' = <<>>
    /\ diag' = <<>>
    /\ UNCHANGED debug
    /\ writes' = {}
    /\ UNCHANGED <<histvars, pipevars, childvars>>

\* the three handlers: arg is NoArg when argCount < 2, else atoi of the
\* argument
SignalBuiltin(sig, arg) ==
    IF arg = 0 THEN SignalGroup(sig) ELSE SignalOne(sig, arg)

\* the arguments typed: none, a pid, or one atoi turns into 0
Args == Pids \cup {NoArg, 0}

HandleAlarmCommand(arg) == SignalBuiltin("SIGCONT", arg)
HandleBlastCommand(arg) == SignalBuiltin("SIGKILL", arg)
HandleSleepCommand(arg) == SignalBuiltin("SIGTSTP", arg)

(* ---------------------------------------------------------------- *)
(* quit and end of input: the loop ends, freeProcessList, return 0    *)
(* ---------------------------------------------------------------- *)
\* the loop left as a waiting collector of its jobs would leave it: not before
\* every job has ended, every one of them reaped
LeaveLoopReaping ==
    /\ \A p \in Pids : os[p].st \notin {"running", "stopped"}
    /\ pc' = "exited"
    /\ exitCode' = 0
    /\ process_list' = <<>>
    /\ os' = [p \in Pids |-> FreeProc]
    /\ lastSig' = NoSig
    /\ UNCHANGED <<waitPid, debug>>

\* main after the loop: freeProcessList frees the entries, no kill and no
\* waitpid, and return 0 ends the shell; its children keep the state they have
LeaveLoop ==
    /\ pc' = "exited"
    /\ exitCode' = 0
    /\ process_list' = <<>>
    /\ UNCHANGED os
    /\ lastSig' = NoSig
    /\ UNCHANGED <<waitPid, debug>>

\* the line read is quit
Quit ==
    /\ pc = "prompt"
    /\ lastOp' = "quit"
    /\ printed' = <<>>
    /\ diag' = <<>>
    /\ writes' = {}
    /\ LeaveLoop
    /\ UNCHANGED <<histvars, pipevars, childvars>>

\* readInput returns NULL: fgets met the end of the input
EndOfInput ==
    /\ pc = "prompt"
    /\ lastOp' = "eof"
    /\ printed' = <<>>
    /\ diag' = <<>>
    /\ writes' = {}
    /\ LeaveLoop
    /\ UNCHANGED <<histvars, pipevars, childvars>>

(* ---------------------------------------------------------------- *)
(* The children, while the shell runs                                 *)
(* ---------------------------------------------------------------- *)
\* a running child exits
ChildExits(p) ==
    /\ pc \notin {"exited", "stopped"}
    /\ os[p].st = "running"
    /\ os' = [os EXCEPT ![p] = [st |-> "exited", ev |-> "none"]]
    /\ lastSig' = [Forget(lastSig) EXCEPT ![p] = "none"]
    /\ printed' = <<>>
    /\ diag' = <<>>
    /\ UNCHANGED debug
    /\ writes' = {}
    /\ lastOp' = "other"
    /\ UNCHANGED <<process_list, pc, waitPid, exitCode>>
    /\ UNCHANGED <<histvars, pipevars, childvars>>

\* a signal from outside the shell (another terminal, the child itself)
ChildSignalled(p, sig) ==
    /\ pc \notin {"exited", "stopped"}
    /\ Alive(os, p)
    /\ os' = Deliver(os, p, sig)
    /\ os' # os
    /\ lastSig' = [Forget(lastSig) EXCEPT ![p] = "none"]
    /\ printed' = <<>>
    /\ diag' = <<>>
    /\ UNCHANGED debug
    /\ writes' = {}
    /\ lastOp' = "other"
    /\ UNCHANGED <<process_list, pc, waitPid, exitCode>>
    /\ UNCHANGED <<histvars, pipevars, childvars>>

JobNext ==
    \/ \E name \in Names, blocking \in BOOLEAN, pid \in Pids :
            ExecuteSingleCommand(name, blocking, pid)
    \/ ForkFails
    \/ WaitReturns
    \/ Procs
    \/ \E arg \in Args : HandleAlarmCommand(arg)
    \/ \E arg \in Args : HandleBlastCommand(arg)
    \/ \E arg \in Args : HandleSleepCommand(arg)
    \/ Quit
    \/ EndOfInput
    \/ ShellContinued
    \/ \E p \in Pids : ChildExits(p)
    \/ \E p \in Pids, sig \in {"SIGTSTP", "SIGCONT", "SIGKILL"} : ChildSignalled(p, sig)

(* ---------------------------------------------------------------- *)
(* Two-stage pipelines: executePipeCommands of myshell.c and the main *)
(* of mypipeline.c, one step per system call of the parent and of     *)
(* each child                                                         *)
(* ---------------------------------------------------------------- *)
NoPipeline ==
    [prog |-> "none", leftIn |-> FALSE, leftOut |-> FALSE, rightIn |-> FALSE,
     rightOut |-> FALSE, blocking |-> TRUE, reads |-> FALSE]

\* a child not forked: at is "none" | "forked" | "dup" | "closed" | "ready"
\* (before the redirect test and execvp) | "prog" (the program runs) |
\* "zombie" | "reaped" | "orphan" (alive when the parent exited, not
\* followed further); fds are the descriptors it holds on the pipe ("r",
\* "w", "in": standard input on the read end, "out": standard output on the
\* write end, "fin": standard input on the file an inputRedirect names,
\* "fout": standard output on the file an outputRedirect names); ran: execvp succeeded; code: exit status; rank: 1 for the
\* child that terminated first, 2 for the other, 0 while it lives
NoKid == [at |-> "none", fds |-> {}, ran |-> FALSE, code |-> 0, rank |-> 0]

\* no child followed
NoChild ==
    [pid |-> 0, inputRedirect |-> FALSE, outputRedirect |-> FALSE, at |-> "none",
     failed |-> "none", code |-> -1, ran |-> FALSE]

ChildInit ==
    /\ child = NoChild
    /\ target = "absent"

PipeInit ==
    /\ pipeline = NoPipeline
    /\ ppc = "idle"
    /\ pipefd = {}
    /\ kid = [c \in {1, 2} |-> NoKid]

Terminated(k) == k.at \in {"zombie", "reaped"}

\* the processes that hold the write end of the pipe open: 0 is the parent
WriteHolders ==
    {c \in {1, 2} : kid[c].fds \cap {"w", "out"} # {}}
        \cup (IF "w" \in pipefd THEN {0} ELSE {})

\* the names of the two programs of a pipeline (arguments[0] of each stage)
PipeNames == {"ls", "tail"}

\* a child when the parent exits: exit() neither signals nor waits for it,
\* so a child still alive lives on without a parent
Orphaned(k) ==
    IF k.at \in {"none", "zombie", "reaped"} THEN NoKid ELSE [NoKid EXCEPT !.at = "orphan"]

\* the state after exit(1) in the parent
ParentExits ==
    /\ pc' = "exited"
    /\ exitCode' = 1
    /\ process_list' = <<>>
    /\ os' = [p \in Pids |-> FreeProc]
    /\ lastSig' = NoSig
    /\ printed' = <<>>
    /\ diag' = <<>>
    /\ UNCHANGED debug
    /\ writes' = {}
    /\ lastOp' = "other"
    /\ UNCHANGED waitPid
    /\ pipeline' = NoPipeline
    /\ ppc' = "idle"
    /\ pipefd' = {}
    /\ kid' = [c \in {1, 2} |-> Orphaned(kid[c])]
    /\ UNCHANGED <<histvars, childvars>>

\* what a step of the parent inside the pipeline code leaves alone
ParentFrame ==
    /\ UNCHANGED <<process_list, os, pc, waitPid, exitCode, printed, diag, debug, writes, lastOp, lastSig>>
    /\ UNCHANGED <<histvars, childvars>>

\* execute() finds pCmdLine->next set: executePipeCommands, pipe() succeeds.
\* leftIn and leftOut are the inputRedirect and the outputRedirect of
\* pCmdLine, rightIn and rightOut those of pCmdLine->next
ExecutePipeCommands(leftIn, leftOut, rightIn, rightOut, blocking, reads) ==
    /\ pc = "prompt"
    /\ pc' = "pipeline"
    /\ pipeline' = [prog |-> "myshell", leftIn |-> leftIn, leftOut |-> leftOut,
                    rightIn |-> rightIn, rightOut |-> rightOut,
                    blocking |-> blocking, reads |-> reads]
    /\ ppc' = "piped"
    /\ pipefd' = {"r", "w"}
    /\ printed' = <<>>
    /\ diag' = <<>>
    /\ UNCHANGED debug
    /\ writes' = {}
    /\ lastOp' = "other"
    /\ lastSig' = Forget(lastSig)
    /\ UNCHANGED <<process_list, os, waitPid, exitCode, kid>>
    /\ UNCHANGED <<histvars, childvars>>

\* mypipeline started: main, pipe() succeeds.  The program has no job table
\* and its two commands have no redirect
MyPipelineMain(reads) ==
    /\ pc = "prompt"
    /\ process_list = <<>>
    /\ \A p \in Pids : os[p].st = "free"
    /\ pc' = "pipeline"
    /\ pipeline' = [prog |-> "mypipeline", leftIn |-> FALSE, leftOut |-> FALSE,
                    rightIn |-> FALSE, rightOut |-> FALSE,
                    blocking |-> TRUE, reads |-> reads]
    /\ ppc' = "piped"
    /\ pipefd' = {"r", "w"}
    /\ printed' = <<>>
    /\ diag' = <<>>
    /\ UNCHANGED debug
    /\ writes' = {}
    /\ lastOp' = "other"
    /\ lastSig' = NoSig
    /\ UNCHANGED <<process_list, os, waitPid, exitCode, kid>>
    /\ UNCHANGED <<histvars, childvars>>

\* pipe() fails: perror, exit(1)
PipeFails ==
    /\ pc = "prompt"
    /\ ParentExits

\* the left child registered in the job table as a single command is
ForkLeftTracked ==
    /\ pc = "pipeline"
    /\ ppc = "piped"
    /\ kid' = [kid EXCEPT ![1] = [NoKid EXCEPT !.at = "forked", !.fds = pipefd]]
    /\ ppc' = "forked1"
    /\ process_list' = AddProcess(process_list, [name |-> "ls", blocking |-> TRUE], 1)
    /\ UNCHANGED <<pipeline, pipefd>>
    /\ UNCHANGED <<os, pc, waitPid, exitCode, printed, diag, debug, writes, lastOp, lastSig>>
    /\ UNCHANGED <<histvars, childvars>>

\* fork() of the left child: it starts with the parent's descriptors
ForkLeft ==
    /\ pc = "pipeline"
    /\ ppc = "piped"
    /\ kid' = [kid EXCEPT ![1] = [NoKid EXCEPT !.at = "forked", !.fds = pipefd]]
    /\ ppc' = "forked1"
    /\ UNCHANGED <<pipeline, pipefd>>
    /\ ParentFrame

\* mypipeline only: the parent closes the write end before the second fork
CloseWriteEarly ==
    /\ pc = "pipeline"
    /\ pipeline.prog = "mypipeline"
    /\ ppc = "forked1"
    /\ pipefd' = pipefd \ {"w"}
    /\ ppc' = "closedW"
    /\ UNCHANGED <<pipeline, kid>>
    /\ ParentFrame

\* fork() of the right child
ForkRight ==
    /\ pc = "pipeline"
    /\ ppc = (IF pipeline.prog = "mypipeline" THEN "closedW" ELSE "forked1")
    /\ kid' = [kid EXCEPT ![2] = [NoKid EXCEPT !.at = "forked", !.fds = pipefd]]
    /\ ppc' = "forked2"
    /\ UNCHANGED <<pipeline, pipefd>>
    /\ ParentFrame

\* either fork() fails: perror, exit(1)
PipeForkFails ==
    /\ pc = "pipeline"
    /\ ppc \in {"piped", "forked1", "closedW"}
    /\ pipeline.prog = "mypipeline" => ppc # "forked1"
    /\ ParentExits

\* close(pipefd[0]) in the parent; in mypipeline nothing is left to close
CloseRead ==
    /\ pc = "pipeline"
    /\ ppc = "forked2"
    /\ pipefd' = pipefd \ {"r"}
    /\ ppc' = (IF pipeline.prog = "mypipeline" THEN "wait1" ELSE "closed0")
    /\ UNCHANGED <<pipeline, kid>>
    /\ ParentFrame

\* the parent going on to wait with the write end still open
CloseWriteKeeps ==
    /\ pc = "pipeline"
    /\ ppc = "closed0"
    /\ ppc' = "wait1"
    /\ UNCHANGED <<pipeline, kid, pipefd>>
    /\ ParentFrame

\* close(pipefd[1]) in the parent (myshell)
CloseWrite ==
    /\ pc = "pipeline"
    /\ ppc = "closed0"
    /\ pipefd' = pipefd \ {"w"}
    /\ ppc' = "wait1"
    /\ UNCHANGED <<pipeline, kid>>
    /\ ParentFrame

\* the first wait left out: the parent goes on to the second at once
WaitLeftSkipped ==
    /\ pc = "pipeline"
    /\ ppc = "wait1"
    /\ ppc' = "wait2"
    /\ UNCHANGED <<pipeline, pipefd, kid>>
    /\ ParentFrame

\* waitpid(pid1, NULL, 0) returns: the left child is a zombie and is collected
WaitLeft ==
    /\ pc = "pipeline"
    /\ ppc = "wait1"
    /\ kid[1].at = "zombie"
    /\ kid' = [kid EXCEPT ![1].at = "reaped"]
    /\ ppc' = "wait2"
    /\ UNCHANGED <<pipeline, pipefd>>
    /\ ParentFrame

\* waitpid(pid2, NULL, 0) returns: the right child is a zombie and is collected
WaitRight ==
    /\ pc = "pipeline"
    /\ ppc = "wait2"
    /\ kid[2].at = "zombie"
    /\ kid' = [kid EXCEPT ![2].at = "reaped"]
    /\ ppc' = "done"
    /\ UNCHANGED <<pipeline, pipefd>>
    /\ ParentFrame

\* executePipeCommands returns and the shell is back at the prompt;
\* mypipeline returns 0 from main
PipeReturns ==
    /\ pc = "pipeline"
    /\ ppc = "done"
    /\ pc' = (IF pipeline.prog = "mypipeline" THEN "exited" ELSE "prompt")
    /\ exitCode' = (IF pipeline.prog = "mypipeline" THEN 0 ELSE exitCode)
    /\ pipeline' = NoPipeline
    /\ ppc' = "idle"
    /\ pipefd' = {}
    /\ kid' = [c \in {1, 2} |-> NoKid]
    /\ UNCHANGED <<process_list, os, waitPid, printed, diag, debug, writes, lastOp, lastSig>>
    /\ UNCHANGED <<histvars, childvars>>

\* the order number of a child that terminates now
NextRank == IF \E c \in {1, 2} : Terminated(kid[c]) THEN 2 ELSE 1

\* a child after _exit or the end of its program: its descriptors are closed
Ended(k, code) == [k EXCEPT !.at = "zombie", !.fds = {}, !.code = code, !.rank = NextRank]

\* what a step of a child leaves alone
KidFrame ==
    /\ UNCHANGED <<pipeline, ppc, pipefd>>
    /\ UNCHANGED jobvars
    /\ UNCHANGED <<histvars, childvars>>

\* close(STDOUT_FILENO); dup2(pipefd[1], STDOUT_FILENO) in the left child,
\* close(STDIN_FILENO); dup2(pipefd[0], STDIN_FILENO) in the right one
KidDup(c) ==
    /\ kid[c].at = "forked"
    /\ kid' = [kid EXCEPT ![c].at = "dup",
                          ![c].fds = @ \cup (IF c = 1 THEN {"out"} ELSE {"in"})]
    /\ KidFrame

\* the first close: of the end just duplicated.  In mypipeline the right
\* child has no other close to make
KidCloseDup(c) ==
    /\ kid[c].at = "dup"
    /\ kid' = [kid EXCEPT ![c].at = (IF pipeline.prog = "mypipeline" /\ c = 2
                                     THEN "ready" ELSE "closed"),
                          ![c].fds = @ \ (IF c = 1 THEN {"w"} ELSE {"r"})]
    /\ KidFrame

\* the stage wiring its other stream as a single command does: the left
\* stage opens its inputRedirect onto standard input, the right one opens
\* (creating or emptying) its outputRedirect onto standard output
KidCloseOtherThenRedirects(c) ==
    /\ kid[c].at = "closed"
    /\ kid' = [kid EXCEPT ![c].at = "ready",
                          ![c].fds = (@ \ (IF c = 1 THEN {"r"} ELSE {"w"}))
                                        \cup (IF c = 1 /\ pipeline.leftIn THEN {"fin"} ELSE {})
                                        \cup (IF c = 2 /\ pipeline.rightOut THEN {"fout"} ELSE {})]
    /\ target' = IF c = 2 /\ pipeline.rightOut
                 THEN (IF target = "absent" THEN "created" ELSE "truncated")
                 ELSE target
    /\ UNCHANGED <<pipeline, ppc, pipefd, child>>
    /\ UNCHANGED jobvars
    /\ UNCHANGED histvars

\* the second close: of the end the child does not use
KidCloseOther(c) ==
    /\ kid[c].at = "closed"
    /\ kid' = [kid EXCEPT ![c].at = "ready",
                          ![c].fds = @ \ (IF c = 1 THEN {"r"} ELSE {"w"})]
    /\ KidFrame

\* the stage carries the redirect the pipeline does not allow
Rejected(c) == IF c = 1 THEN pipeline.leftOut ELSE pipeline.rightIn

\* the redirect reported, the program executed all the same
KidRejectsThenExecs(c) ==
    /\ kid[c].at = "ready"
    /\ Rejected(c)
    /\ kid' = [kid EXCEPT ![c].at = "prog", ![c].ran = TRUE]
    /\ KidFrame

\* the redirect test fails the stage: fprintf, _exit(1)
KidRejects(c) ==
    /\ kid[c].at = "ready"
    /\ Rejected(c)
    /\ kid' = [kid EXCEPT ![c] = Ended(kid[c], 1)]
    /\ KidFrame

\* execvp succeeds: the program of the stage runs
KidExecs(c) ==
    /\ kid[c].at = "ready"
    /\ ~Rejected(c)
    /\ kid' = [kid EXCEPT ![c].at = "prog", ![c].ran = TRUE]
    /\ KidFrame

\* execvp fails: perror, _exit(1)
KidExecFails(c) ==
    /\ kid[c].at = "ready"
    /\ ~Rejected(c)
    /\ kid' = [kid EXCEPT ![c] = Ended(kid[c], 1)]
    /\ KidFrame

\* the program of a stage ends.  A right program that reads its input to the
\* end ends only once no process holds the write end of the pipe
KidProgramEnds(c, code) ==
    /\ kid[c].at = "prog"
    /\ c = 2 /\ pipeline.reads => WriteHolders = {}
    /\ kid' = [kid EXCEPT ![c] = Ended(kid[c], code)]
    /\ KidFrame

\* the steps of a child up to and including its execvp
KidSetup(c) ==
    \/ KidDup(c)
    \/ KidCloseDup(c)
    \/ KidCloseOther(c)
    \/ KidRejects(c)
    \/ KidExecs(c)
    \/ KidExecFails(c)

KidStep(c) ==
    \/ KidSetup(c)
    \/ \E code \in {0, 1} : KidProgramEnds(c, code)

\* a right program that reads its input to the end meets the end and ends
ReaderEnds ==
    /\ pipeline.reads
    /\ \E code \in {0, 1} : KidProgramEnds(2, code)

ParentStep ==
    \/ ForkLeft
    \/ CloseWriteEarly
    \/ ForkRight
    \/ CloseRead
    \/ CloseWrite
    \/ WaitLeft
    \/ WaitRight
    \/ PipeReturns


\* main() before the first prompt
Init == JobInit /\ HistInit /\ PipeInit /\ ChildInit

\* the shell as execute() drives it, and its children
Spec == Init /\ [][JobNext]_vars

\* main() as far as the history goes: the lines read, expanded and appended
HistSpec == Init /\ [][HistNext]_vars

(* ---------------------------------------------------------------- *)
(* execute(): the dispatch on arguments[0]                            *)
(* A parsed command is [name, arg, next, blocking, outputRedirect,    *)
(* nextInputRedirect]: arguments[0], atoi of arguments[1] (NoArg when *)
(* there is none), whether pCmdLine->next is set, the blocking flag,  *)
(* whether the first stage has an output redirect and the second an   *)
(* input redirect.                                                    *)
(* ---------------------------------------------------------------- *)
Builtins == {"cd", "alarm", "blast", "procs", "sleep", "history"}

\* the built-ins that read arguments[1] as a number
SignalBuiltins == {"alarm", "blast", "sleep"}

\* the parsed commands: only a command with a second stage has the input
\* redirect of that stage, and arg is kept for the names that read it; a
\* built-in is typed bare, or as the left side of a pipe with both redirects
CmdLines ==
    {c \in [name : Builtins \cup Names, arg : Args, next : BOOLEAN, blocking : BOOLEAN,
             outputRedirect : BOOLEAN, nextInputRedirect : BOOLEAN] :
        /\ c.nextInputRedirect => c.next
        /\ c.name \notin SignalBuiltins => c.arg = NoArg
        /\ c.name \in Builtins =>
                /\ ~c.blocking
                /\ c.outputRedirect = c.next
                /\ c.nextInputRedirect = c.next}

BuiltinLines == {c \in CmdLines : c.name \in Builtins}

\* a built-in that touches neither the job table nor the children:
\* handleCdCommand (the working directory is not modelled) and printHistory
\* (its lines are PrintHistory)
PlainBuiltin(cmd) ==
    /\ pc = "prompt"
    /\ printed' = <<>>
    /\ diag' = <<>>
    /\ UNCHANGED debug
    /\ writes' = {}
    /\ lastOp' = (IF cmd.next THEN cmd.name \o "|" ELSE cmd.name)
    /\ lastSig' = Forget(lastSig)
    /\ UNCHANGED <<process_list, os, pc, waitPid, exitCode>>
    /\ UNCHANGED <<histvars, pipevars, childvars>>

\* the rest of execute(): a pipeline when there is a second stage, else a
\* single command
ExecuteProgram(cmd) ==
    IF cmd.next
    THEN \E reads \in BOOLEAN :
            ExecutePipeCommands(FALSE, cmd.outputRedirect, cmd.nextInputRedirect, FALSE,
                                cmd.blocking, reads)
    ELSE \E pid \in Pids : ExecuteSingleCommand(cmd.name, cmd.blocking, pid)

\* execute() looking for a second stage before it looks at the name
ExecutePipeFirst(cmd) ==
    IF cmd.next THEN ExecuteProgram(cmd)
    ELSE IF cmd.name \in {"cd", "history"} THEN PlainBuiltin(cmd)
    ELSE IF cmd.name = "alarm" THEN HandleAlarmCommand(cmd.arg)
    ELSE IF cmd.name = "blast" THEN HandleBlastCommand(cmd.arg)
    ELSE IF cmd.name = "procs" THEN Procs
    ELSE IF cmd.name = "sleep" THEN HandleSleepCommand(cmd.arg)
    ELSE ExecuteProgram(cmd)

\* execute(pCmdLine)
Execute(cmd) ==
    IF cmd.name = "cd" THEN PlainBuiltin(cmd)
    ELSE IF cmd.name = "alarm" THEN HandleAlarmCommand(cmd.arg)
    ELSE IF cmd.name = "blast" THEN HandleBlastCommand(cmd.arg)
    ELSE IF cmd.name = "procs" THEN Procs
    ELSE IF cmd.name = "sleep" THEN HandleSleepCommand(cmd.arg)
    ELSE IF cmd.name = "history" THEN PlainBuiltin(cmd)
    ELSE ExecuteProgram(cmd)

\* the shell as main() drives execute(), with the steps of the children and
\* of a pipeline under way
ExecNext ==
    \/ \E cmd \in CmdLines :
            /\ Execute(cmd)
            /\ Len(process_list') <= MaxPipeJobs
            /\ pc' = "pipeline" => Len(process_list) < MaxPipeJobs
    \/ ForkFails
    \/ PipeFails
    \/ PipeForkFails
    \/ WaitReturns
    \/ ShellContinued
    \/ ForkLeft
    \/ ForkRight
    \/ CloseRead
    \/ CloseWrite
    \/ WaitLeft
    \/ WaitRight
    \/ PipeReturns
    \/ \E c \in {1, 2} : KidStep(c)
    \/ \E p \in Pids : ChildExits(p)

ExecSpec == Init /\ [][ExecNext]_vars

\* main() started with -d as argv[1], before the first prompt
DebugFlag ==
    /\ Init
    /\ debug' = TRUE
    /\ UNCHANGED <<process_list, os, pc, waitPid, exitCode, printed, diag, writes, lastOp, lastSig>>
    /\ UNCHANGED <<histvars, pipevars, childvars>>

\* the shell started with -d: the flag is set, then the prompt loop runs
\* the commands that reach the debug blocks and the ones that change what
\* those blocks report
DebugNext ==
    \/ DebugFlag
    \/ \E name \in Names, blocking \in BOOLEAN, pid \in Pids :
            debug /\ ExecuteSingleCommand(name, blocking, pid)
    \/ debug /\ ForkFails
    \/ debug /\ WaitReturns
    \/ debug /\ Procs
    \/ \E arg \in Pids : debug /\ HandleAlarmCommand(arg)
    \/ \E arg \in Pids : debug /\ HandleBlastCommand(arg)
    \/ \E arg \in Pids : debug /\ HandleSleepCommand(arg)
    \/ debug /\ Quit
    \/ \E p \in Pids : debug /\ ChildExits(p)

DebugSpec == Init /\ [][DebugNext]_vars

(* ---------------------------------------------------------------- *)
(* The child of executeSingleCommand, one step per redirection and one *)
(* for execvp. at is "forked" before the input redirection, "input"    *)
(* after it, "output" after the output redirection, "program" once     *)
(* execvp has replaced the image, "exited" after _exit(1); failed      *)
(* names the call that failed.                                         *)
(* ---------------------------------------------------------------- *)
\* perror, _exit(1)
ChildFails(call) ==
    /\ child' = [child EXCEPT !.at = "exited", !.failed = call, !.code = 1]
    /\ os' = [os EXCEPT ![child.pid] = [st |-> "exited", ev |-> "none"]]

ChildFrame ==
    /\ UNCHANGED <<process_list, pc, waitPid, exitCode, printed, diag, debug, writes,
                   lastOp, lastSig>>
    /\ UNCHANGED <<histvars, pipevars>>

\* fork succeeds for a command with the redirections given; the file its
\* output redirection names is absent or there when the child starts
ExecuteRedirected(name, blocking, pid, inputRedirect, outputRedirect, file) ==
    /\ IF child.at = "none" THEN TRUE ELSE os[child.pid].st # "running"
    /\ ForkSingle(name, blocking, pid)
    /\ child' = [NoChild EXCEPT !.pid = pid, !.inputRedirect = inputRedirect,
                                !.outputRedirect = outputRedirect, !.at = "forked"]
    /\ target' = file

\* the input redirection going on after a failed open
HandleInputRedirectGoesOn(res) ==
    /\ child.at = "forked"
    /\ os[child.pid].st = "running"
    /\ ~child.inputRedirect => res = "ok"
    /\ IF res = "dup2" THEN ChildFails("dup2 input")
       ELSE /\ child' = [child EXCEPT !.at = "input",
                                      !.failed = IF res = "open" THEN "open input" ELSE @]
            /\ UNCHANGED os
    /\ UNCHANGED target
    /\ ChildFrame

\* if (pCmdLine->inputRedirect): open O_RDONLY, dup2 onto stdin, close; res
\* is "ok", or the call that fails
HandleInputRedirect(res) ==
    /\ child.at = "forked"
    /\ os[child.pid].st = "running"
    /\ ~child.inputRedirect => res = "ok"
    /\ IF res = "open" THEN ChildFails("open input")
       ELSE IF res = "dup2" THEN ChildFails("dup2 input")
       ELSE /\ child' = [child EXCEPT !.at = "input"]
            /\ UNCHANGED os
    /\ UNCHANGED target
    /\ ChildFrame

\* if (pCmdLine->outputRedirect): open O_WRONLY | O_CREAT | O_TRUNC, dup2
\* onto stdout, close; an open that succeeds creates the file or empties it
HandleOutputRedirect(res) ==
    /\ child.at = "input"
    /\ os[child.pid].st = "running"
    /\ ~child.outputRedirect => res = "ok"
    /\ IF res = "open" THEN ChildFails("open output")
       ELSE IF res = "dup2" THEN ChildFails("dup2 output")
       ELSE /\ child' = [child EXCEPT !.at = "output"]
            /\ UNCHANGED os
    /\ target' = IF child.outputRedirect /\ res # "open"
                 THEN (IF target = "absent" THEN "created" ELSE "truncated")
                 ELSE target
    /\ ChildFrame

\* execvp: the program runs from here on, or execvp returns and the child
\* leaves with _exit(1)
Execvp(ok) ==
    /\ child.at = "output"
    /\ os[child.pid].st = "running"
    /\ IF ok
       THEN /\ child' = [child EXCEPT !.at = "program", !.ran = TRUE]
            /\ UNCHANGED os
       ELSE ChildFails("execvp")
    /\ UNCHANGED target
    /\ ChildFrame

\* the program the child became exits
ProgramExits ==
    /\ child.at = "program"
    /\ ChildExits(child.pid)

RedirNext ==
    \/ \E name \in Names, blocking, inputRedirect, outputRedirect \in BOOLEAN,
          pid \in Pids, file \in {"absent", "old"} :
            ExecuteRedirected(name, blocking, pid, inputRedirect, outputRedirect, file)
    \/ \E res \in {"ok", "open", "dup2"} : HandleInputRedirect(res)
    \/ \E res \in {"ok", "open", "dup2"} : HandleOutputRedirect(res)
    \/ \E ok \in BOOLEAN : Execvp(ok)
    \/ ProgramExits
    \/ WaitReturns
    \/ Procs

\* single commands with redirections, their children step by step
RedirSpec == Init /\ [][RedirNext]_vars

(* ---------------------------------------------------------------- *)
(* The functions of the job table on their own: every table of up to  *)
(* MaxJobs entries, as a procs call holds it between its loops         *)
(* ---------------------------------------------------------------- *)
TableEntries ==
    [pid : Pids, status : {TERMINATED, RUNNING, SUSPENDED},
     cmd : {[name |-> "looper", blocking |-> FALSE]}, watched : {FALSE}]

Tables == UNION {[1..n -> TableEntries] : n \in 0..MaxJobs}

TableInit ==
    /\ process_list \in Tables
    /\ debug \in BOOLEAN
    /\ os = [p \in Pids |-> FreeProc]
    /\ pc = "prompt"
    /\ waitPid = 0
    /\ exitCode = -1
    /\ printed = <<>>
    /\ diag = <<>>
    /\ writes = {}
    /\ lastOp = "other"
    /\ lastSig = NoSig
    /\ HistInit
    /\ PipeInit
    /\ ChildInit

\* updateProcessStatus called on the node at index from (NULL when from is
\* past the end) with any pid and status, once on each table drawn
CallUpdateProcessStatus(from, pid, status) ==
    LET u == UpdateProcessStatus(debug, process_list, from, pid, status)
    IN  /\ lastOp = "other"
        /\ process_list' = u.list
        /\ diag' = u.err
        /\ writes' = Changes(process_list, u.list)
        /\ lastOp' = "updateProcessStatus"
        /\ printed' = <<>>
        /\ UNCHANGED <<os, pc, waitPid, exitCode, debug, lastSig>>
        /\ UNCHANGED <<histvars, pipevars, childvars>>

\* the removal loop of printProcessList run on the table
CallRemovalLoop ==
    LET r == RemovalLoop(debug, process_list)
    IN  /\ lastOp = "other"
        /\ process_list' = r.list
        /\ diag' = r.err
        /\ writes' = {}
        /\ lastOp' = "removal"
        /\ printed' = <<>>
        /\ UNCHANGED <<os, pc, waitPid, exitCode, debug, lastSig>>
        /\ UNCHANGED <<histvars, pipevars, childvars>>

TableNext ==
    \/ \E from \in 1..(MaxJobs + 1), pid \in Pids, status \in {TERMINATED, RUNNING, SUSPENDED} :
            CallUpdateProcessStatus(from, pid, status)
    \/ CallRemovalLoop

TableSpec == TableInit /\ [][TableNext]_vars

(* ---------------------------------------------------------------- *)
(* main(): the whole iteration for lines of the kinds the loop tells   *)
(* apart after the append. The text number of such a line is           *)
(* KindBase * c + its place among the lines appended, c being the      *)
(* place of its kind in Kinds; every other text is a program to run.  *)
(* parseCmdLines is the parser of the course library: NULL for a      *)
(* blank or malformed line.                                            *)
(* ---------------------------------------------------------------- *)
KindBase == 100

Kinds == <<"blank", "quit", "history", "cd">>

\* what the line with this text number says
Says(line) ==
    IF line.txt \div KindBase \in 1..Len(Kinds) THEN Kinds[line.txt \div KindBase]
    ELSE "program"

\* the loop after addToHistory(input): parseCmdLines, the test for quit,
\* execute(); the launch of a program is left to the other specifications
AfterAppend(input) ==
    /\ lastOp' = (IF Says(input) = "blank" THEN "none parsed" ELSE Says(input))
    /\ pc' = (IF Says(input) = "quit" THEN "exited" ELSE "prompt")
    /\ exitCode' = (IF Says(input) = "quit" THEN 0 ELSE exitCode)
    /\ printed' = (IF Says(input) = "history" THEN PrintHistory' ELSE <<>>)
    /\ diag' = <<>>
    /\ writes' = {}
    /\ UNCHANGED <<process_list, os, waitPid, debug, lastSig>>
    /\ UNCHANGED <<pipevars, childvars>>

\* a main that parses the line before it appends it: a line the parser
\* returns nothing for is not appended, and history is run before its own
\* line is in the ring
IterationParseFirst(input) ==
    /\ IF Says(input) = "blank"
       THEN /\ UNCHANGED <<history, history_count, history_start, history_end, appended>>
            /\ parsed' = input
       ELSE AppendAndParse(input)
    /\ lastOp' = (IF Says(input) = "blank" THEN "none parsed" ELSE Says(input))
    /\ pc' = (IF Says(input) = "quit" THEN "exited" ELSE "prompt")
    /\ exitCode' = (IF Says(input) = "quit" THEN 0 ELSE exitCode)
    /\ printed' = (IF Says(input) = "history" THEN PrintHistory ELSE <<>>)
    /\ diag' = <<>>
    /\ writes' = {}
    /\ UNCHANGED <<process_list, os, waitPid, debug, lastSig>>
    /\ UNCHANGED <<pipevars, childvars>>

\* lines 435 to 447 of main for the line input holds
Iteration(input) ==
    /\ AppendAndParse(input)
    /\ AfterAppend(input)

\* a line of kind Kinds[c] is read
ReadCommand(c, len) ==
    /\ pc = "prompt"
    /\ Len(appended) < MaxLines
    /\ special < MaxSpecial
    /\ typed' = [kind |-> "line", n |-> 0, wraps |-> 0]
    /\ special' = special + 1
    /\ Iteration([txt |-> KindBase * c + Len(appended) + 1, len |-> len])

\* a program line is read
ReadProgram ==
    /\ pc = "prompt"
    /\ ReadLine(3)

\* `!!` is read: the last line of the ring is run again, if there is one
RecallCommand ==
    /\ pc = "prompt"
    /\ Len(appended) < MaxLines
    /\ special < MaxSpecial
    /\ typed' = [kind |-> "!!", n |-> 0, wraps |-> 0]
    /\ special' = special + 1
    /\ LET last_cmd == GetHistoryCommand(history_count)
       IN  IF last_cmd # NullLine THEN Iteration(last_cmd)
           ELSE /\ RecallFails
                /\ printed' = <<>>
                /\ diag' = <<>>
                /\ writes' = {}
                /\ lastOp' = "none parsed"
                /\ UNCHANGED <<process_list, os, pc, waitPid, exitCode, debug, lastSig>>
                /\ UNCHANGED <<pipevars, childvars>>

LoopNext ==
    \/ \E c \in 1..Len(Kinds), len \in LineLens :
            /\ OverLong(len) => Kinds[c] = "history"
            /\ ReadCommand(c, len)
    \/ ReadProgram
    \/ RecallCommand

\* main() from the line read to the command run, for every kind of line; the
\* over-long lines are history commands, whose listing shows how they were
\* stored
LoopSpec == Init /\ [][LoopNext]_vars

\* the shell running pipelines between single commands and procs calls, and
\* the standalone mypipeline
PipeNext ==
    \/ \E leftOut, rightIn, blocking, reads \in BOOLEAN :
            ExecutePipeCommands(FALSE, leftOut, rightIn, FALSE, blocking, reads)
    \/ \E reads \in BOOLEAN : MyPipelineMain(reads)
    \/ PipeFails
    \/ PipeForkFails
    \/ ParentStep
    \/ \E c \in {1, 2} : KidStep(c)
    \/ \E name \in Names, blocking \in BOOLEAN, pid \in Pids :
            ExecuteSingleCommand(name, blocking, pid) /\ Len(process_list') <= MaxPipeJobs
    \/ WaitReturns
    \/ Procs
    \/ \E p \in Pids : ChildExits(p)

PipeSpec == Init /\ [][PipeNext]_vars

\* the scheduler lets the parent and each child take the step it is ready
\* to take, and a program that reads to the end of its input ends once it
\* has met it; no other program is taken to end
PipeFairSpec ==
    /\ PipeSpec
    /\ WF_vars(ParentStep)
    /\ \A c \in {1, 2} : WF_vars(KidSetup(c))
    /\ WF_vars(ReaderEnds)

\* pipelines whose stages carry any of the four redirects, run between
\* single commands with an output redirect.  The outputRedirect of the right
\* stage names the file those commands write, so target is that file
WireNext ==
    \/ \E leftIn, leftOut, rightIn, rightOut, reads \in BOOLEAN :
            ExecutePipeCommands(leftIn, leftOut, rightIn, rightOut, TRUE, reads)
    \/ ForkLeft
    \/ ForkRight
    \/ CloseRead
    \/ CloseWrite
    \/ WaitLeft
    \/ WaitRight
    \/ PipeReturns
    \/ \E c \in {1, 2} : KidStep(c)
    \/ \E blocking \in BOOLEAN, pid \in Pids, file \in {"absent", "old"} :
            /\ ExecuteRedirected("looper", blocking, pid, FALSE, TRUE, file)
            /\ Len(process_list') <= MaxPipeJobs
    \/ HandleInputRedirect("ok")
    \/ \E res \in {"ok", "open"} : HandleOutputRedirect(res)
    \/ \E ok \in BOOLEAN : Execvp(ok)
    \/ ProgramExits
    \/ WaitReturns
    \/ Procs

WireSpec == Init /\ [][WireNext]_vars

(* ---------------------------------------------------------------- *)
(* An observer marks one entry whose child has terminated, to follow  *)
(* it until it leaves the table (FairSpec only)                       *)
(* ---------------------------------------------------------------- *)
\* the child of the entry at index i has terminated: its pid names a zombie,
\* or no child of the shell any more.  (An entry whose pid the kernel has
\* handed out again to a living child is left out: the pid no longer tells.)
ChildTerminated(list, o, i) ==
    \/ o[list[i].pid].st = "free"
    \/ Zombie(o, list[i].pid)

Watched == \E i \in 1..Len(process_list) : process_list[i].watched

Track(i) ==
    /\ pc = "prompt"
    /\ ~Watched
    /\ i \in 1..Len(process_list)
    /\ ChildTerminated(process_list, os, i)
    /\ process_list' = [process_list EXCEPT ![i].watched = TRUE]
    /\ UNCHANGED <<os, pc, waitPid, exitCode, printed, diag, debug, writes, lastOp, lastSig>>
    /\ UNCHANGED <<histvars, pipevars, childvars>>

\* no two entries hold the same pid
PidsDistinct(list) ==
    \A i, j \in 1..Len(list) : i # j => list[i].pid # list[j].pid

\* the shell under a kernel that hands out no pid the table still holds
\* (pids are given in increasing order and wrap around rarely), followed by
\* the observer
FairNext ==
    \/ \E name \in Names, blocking \in BOOLEAN, pid \in Pids :
            ExecuteSingleCommand(name, blocking, pid) /\ PidsDistinct(process_list')
    \/ ForkFails
    \/ WaitReturns
    \/ Procs
    \/ \E arg \in Args : HandleAlarmCommand(arg)
    \/ \E arg \in Args : HandleBlastCommand(arg)
    \/ \E arg \in Args : HandleSleepCommand(arg)
    \/ Quit
    \/ ShellContinued
    \/ \E p \in Pids : ChildExits(p)
    \/ \E p \in Pids, sig \in {"SIGTSTP", "SIGCONT", "SIGKILL"} : ChildSignalled(p, sig)
    \/ \E i \in 1..MaxJobs : Track(i)

\* the executions in which the user asks for procs again and again; the
\* kernel returns from waitpid once the child is a zombie
FairSpec ==
    Init /\ [][FairNext]_vars /\ WF_vars(WaitReturns) /\ []<><<Procs>>_vars

(* ================================================================ *)
(* Claims                                                             *)
(* ================================================================ *)
NotTerminated(line) == line.status # "Terminated"

\* C1: an entry that a procs call prints as Terminated is out of the table
\* when that call returns -- the table after the call is exactly the printed
\* entries that were not printed as Terminated, in order -- and no entry
\* with status TERMINATED is ever in the table between two commands.
C1_TerminatedRemovedBySameProcs ==
    /\ \A i \in 1..Len(process_list) : process_list[i].status # TERMINATED
    /\ lastOp = "procs" => PrintLines(process_list) = SelectSeq(printed, NotTerminated)

\* a procs call has printed a Terminated entry next to entries that stay
C1_Witness ==
    /\ lastOp = "procs"
    /\ \E i \in 1..Len(printed) : printed[i].status = "Terminated"
    /\ Len(process_list) > 0

\* index of the first printed line for pid p, 0 if none
FirstLine(lines, p) ==
    IF \E i \in 1..Len(lines) : lines[i].pid = p
    THEN CHOOSE i \in 1..Len(lines) :
            lines[i].pid = p /\ \A j \in 1..(i - 1) : lines[j].pid # p
    ELSE 0

\* C2: when `sleep <pid>` has stopped a tracked background job, the procs
\* call that follows prints it as Suspended; when `alarm <pid>` has resumed
\* it, the procs call that follows prints it as Running.
C2_StopThenContinueReported ==
    \A p \in Pids :
        LET k == FirstLine(printed, p)
        IN  /\ lastOp = "procs" /\ k # 0 /\ lastSig[p] = "stopSeen"
                => printed[k].status = "Suspended"
            /\ lastOp = "procs" /\ k # 0 /\ lastSig[p] = "contSeen"
                => printed[k].status = "Running"

\* procs has just reported a job that sleep stopped, in a table that also
\* holds an older entry
C2_Witness ==
    \E p \in Pids :
        /\ lastOp = "procs"
        /\ lastSig[p] = "stopSeen"
        /\ FirstLine(printed, p) # 0
        /\ Len(printed) > 1

\* C3: reconciliation is idempotent: run twice in a row with no event in
\* between, it leaves every entry with the status one run gives it.
C3_ReconciliationIdempotent ==
    pc = "prompt" =>
        LET r1 == UpdateProcessList(debug, process_list, os)
            r2 == UpdateProcessList(debug, r1.list, r1.os)
        IN  r2.list = r1.list

\* C4: the first procs call after the child of a single command has
\* terminated prints its entry as Terminated, whatever else is in the table,
\* the foreground child already collected by the blocking wait included.
C4_TerminatedChildPrintedTerminated ==
    [][Procs =>
        \A i \in 1..Len(process_list) :
            ChildTerminated(process_list, os, i) => printed'[i].status = "Terminated"
      ]_vars

\* C5: in the executions in which procs is invoked again and again (those of
\* FairSpec), every entry whose child has terminated is eventually removed
\* from the table (stated of the entry the observer follows, which can be any
\* such entry).
C5_NoLeak == Watched ~> ~Watched

\* the statuses of the table, head first
Statuses(list) == [i \in 1..Len(list) |-> list[i].status]

\* C6: with the blocking flag set the shell stays in the wait until the child
\* has exited or was killed (a stopped child keeps it there); with the flag
\* clear it is back at the prompt at once, the entry is Running, and no step
\* other than a procs call changes the status of an entry.
C6_ForegroundBlocksBackgroundDoesNot ==
    [][/\ pc = "wait" =>
            /\ Len(process_list) > 0
            /\ process_list[1].pid = waitPid
            /\ process_list[1].cmd.blocking
            /\ os[waitPid].st # "free"
       /\ pc = "wait" /\ pc' = "prompt" =>
            /\ Zombie(os, waitPid)
            /\ os'[waitPid].st = "free"
       /\ pc = "wait" /\ os[waitPid].st = "stopped" /\ os' = os => pc' = "wait"
       /\ Len(process_list') = Len(process_list) + 1 =>
            /\ process_list'[1].status = RUNNING
            /\ pc' = (IF process_list'[1].cmd.blocking THEN "wait" ELSE "prompt")
            /\ process_list'[1].cmd.blocking => waitPid' = process_list'[1].pid
       /\ ~Procs /\ pc' # "exited" =>
            Statuses(SubSeq(process_list', Len(process_list') - Len(process_list) + 1,
                            Len(process_list'))) = Statuses(process_list)
      ]_vars

\* the shell is held by a foreground child that is stopped
C6_Witness ==
    /\ pc = "wait"
    /\ os[waitPid].st = "stopped"
    /\ Len(process_list) > 1
    /\ ~process_list[2].cmd.blocking

AllowedTransitions ==
    {<<RUNNING, SUSPENDED>>, <<SUSPENDED, RUNNING>>,
     <<RUNNING, TERMINATED>>, <<SUSPENDED, TERMINATED>>}

\* C7: the status changes a reconciliation makes are Running->Suspended,
\* Suspended->Running, Running->Terminated and Suspended->Terminated only; a
\* Terminated entry is never given another status, and none is in the table
\* for a later operation to change.
C7_StatusTransitions ==
    /\ \A w \in writes : w[2] # TERMINATED /\ <<w[2], w[3]>> \in AllowedTransitions
    /\ \A i \in 1..Len(process_list) : process_list[i].status \in {RUNNING, SUSPENDED}

\* one reconciliation took one entry from Suspended to Terminated and another
\* from Running to Suspended
C7_Witness ==
    /\ lastOp = "procs"
    /\ \E w1, w2 \in writes :
        /\ <<w1[2], w1[3]>> = <<SUSPENDED, TERMINATED>>
        /\ <<w2[2], w2[3]>> = <<RUNNING, SUSPENDED>>

\* the child of the entry at index i has not been waited for: a background
\* entry (procs removes it in the call that collects it), or the foreground
\* entry the shell is blocked on
Unreaped(i) ==
    \/ ~process_list[i].cmd.blocking
    \/ pc = "wait" /\ i = 1

\* C8 as stated: no two entries of the table hold the same pid.
C8_NoTwoEntriesSamePid == PidsDistinct(process_list)

\* C8 amended: no two entries whose children have not been waited for hold
\* the same pid, and the pid of such an entry names a child of the shell.
C8_NoTwoUnreapedEntriesSamePid ==
    \A i, j \in 1..Len(process_list) :
        /\ Unreaped(i) => os[process_list[i].pid].st # "free"
        /\ i # j /\ Unreaped(i) /\ Unreaped(j) => process_list[i].pid # process_list[j].pid

\* a pid handed out again: a stale foreground entry and a live background
\* job hold the same pid, next to another background job
C8_Witness ==
    \E i, j, k \in 1..Len(process_list) :
        /\ i < j
        /\ process_list[i].pid = process_list[j].pid
        /\ Unreaped(i)
        /\ k # i /\ Unreaped(k)

\* the smaller of two numbers
Min(a, b) == IF a < b THEN a ELSE b

\* the last k of the lines handed to addToHistory, oldest first
LastAppended(k) ==
    [i \in 1..k |-> appended[Len(appended) - k + i]]

\* the texts of a history listing, in order
Texts(listing) == [i \in 1..Len(listing) |-> listing[i][2]]

\* C9 as stated: the history view holds exactly min(M, HISTLEN) lines, the
\* last min(M, HISTLEN) lines appended, in append order.
C9_ViewIsLastAppended ==
    /\ history_count = Min(Len(appended), HISTLEN)
    /\ Texts(PrintHistory) = LastAppended(Min(Len(appended), HISTLEN))

\* C9 amended: the view holds exactly min(M, HISTLEN) lines, numbered from 1,
\* and they are the last min(M, HISTLEN) lines appended, in append order,
\* each cut to its first MAX_BUF - 1 bytes; getHistoryCommand gives the same
\* line for each number of the listing.
C9_ViewIsLastAppendedTruncated ==
    LET k == Min(Len(appended), HISTLEN)
    IN  /\ history_count = k
        /\ Len(PrintHistory) = k
        /\ \A i \in 1..k :
            /\ PrintHistory[i][1] = i
            /\ PrintHistory[i][2] = Strncpy(LastAppended(k)[i])
            /\ GetHistoryCommand(i) = PrintHistory[i][2]

\* more lines than the ring holds were appended, an over-long one among
\* those retained
C9_Witness ==
    /\ Len(appended) > HISTLEN
    /\ history_start > 1
    /\ \E i \in 1..HISTLEN : LastAppended(HISTLEN)[i].len > MAX_BUF - 1

\* C10: `!!` recalls the line at logical index history_count, `!n` with
\* 1 <= n <= history_count the line at logical index n (the n-th oldest
\* retained line), and the recalled text is the line handed to the parser.
C10_RecallByLogicalIndex ==
    [][LET k == Min(Len(appended), HISTLEN)
       IN  /\ typed'.kind = "!!" /\ history_count >= 1
                => parsed' = Strncpy(LastAppended(k)[k])
           /\ typed'.kind = "!n" /\ typed'.wraps = 0
                /\ typed'.n >= 1 /\ typed'.n <= history_count
                => parsed' = Strncpy(LastAppended(k)[typed'.n])
      ]_vars

\* a recall by number from a ring that has wrapped around has been parsed
C10_Witness ==
    /\ typed.kind = "!n"
    /\ typed.wraps = 0
    /\ typed.n > 1
    /\ parsed # NullLine
    /\ history_start > 0
    /\ Len(appended) > HISTLEN + 1

\* the ring as getHistoryCommand and printHistory see it
Ring == <<history, history_count, history_start, history_end>>

\* the line just read is a recall the claim calls failed: `!!` with nothing
\* stored, or `!n` with the number typed below 1 or above history_count
FailedRecallTyped ==
    \/ typed'.kind = "!!" /\ history_count = 0
    \/ /\ typed'.kind = "!n"
       /\ typed'.wraps > 0 \/ typed'.n < 1 \/ typed'.n > history_count

\* the iteration ended at the `continue`: nothing appended, nothing parsed
\* or executed, the shell at the prompt
IterationAborted ==
    /\ Ring' = Ring
    /\ appended' = appended
    /\ parsed' = NullLine
    /\ process_list' = process_list
    /\ pc' = "prompt"

\* C11: a failed recall -- `!!` on an empty history, `!n` with n < 1 or
\* n > history_count -- leaves the ring unchanged, parses and executes
\* nothing, leaves the job table unchanged, and the loop goes on.
C11_FailedRecallChangesNothing ==
    [][FailedRecallTyped => IterationAborted]_vars

\* a number too large for an int, its low 32 bits the index of a stored
\* line, was typed after `!` and the recall failed
C11_Witness ==
    /\ typed.kind = "!n"
    /\ typed.wraps > 0
    /\ typed.n >= 1 /\ typed.n <= history_count
    /\ parsed = NullLine
    /\ history_count > 1

\* C12: after a successful recall the line appended is the recalled line's
\* text: the newest entry of the history equals the line the recall found
\* before the append, the ring being full or not, and is the line parsed.
C12_RecalledTextAppended ==
    [][typed'.kind \in {"!!", "!n"} /\ parsed' # NullLine =>
            LET index == IF typed'.kind = "!!" THEN history_count
                         ELSE Atoi(typed'.wraps, typed'.n)
                recalled == GetHistoryCommand(index)
            IN  /\ recalled # NullLine
                /\ history_count' = Min(history_count + 1, HISTLEN)
                /\ history'[(history_start' + history_count' - 1) % HISTLEN] = recalled
                /\ parsed' = recalled
      ]_vars

\* a full ring in which `!1` has recalled the oldest line, the one its own
\* append evicted
C12_Witness ==
    /\ typed.kind = "!n"
    /\ typed.n = 1
    /\ typed.wraps = 0
    /\ parsed # NullLine
    /\ Len(appended) > HISTLEN
    /\ history[(history_end + HISTLEN - 1) % HISTLEN] = parsed
    /\ parsed = appended[Len(appended) - HISTLEN]

\* C13: the shell leaves executePipeCommands for the prompt only when both
\* children have terminated and been collected, and the left one is
\* collected before the right one whichever terminated first; the blocking
\* flag of the parsed command plays no part.
C13_PipelineWaitsForBoth ==
    [][/\ pc = "pipeline" /\ pc' = "prompt" =>
            kid[1].at = "reaped" /\ kid[2].at = "reaped"
       /\ pc = "pipeline" /\ ~(Terminated(kid[1]) /\ Terminated(kid[2])) =>
            pc' \in {"pipeline", "exited"}
       /\ pc = "pipeline" /\ pc' = "exited" /\ pipeline.prog = "myshell" =>
            exitCode' = 1 /\ kid[2].at = "none"
      ]_vars

\* a pipeline typed with the background marker, whose right child
\* terminated first, has been waited out
C13_Witness ==
    /\ pc = "pipeline"
    /\ pipeline.prog = "myshell"
    /\ ~pipeline.blocking
    /\ ppc = "done"
    /\ kid[2].rank = 1
    /\ kid[1].rank = 2

\* the left child has terminated while the pipeline is run
LeftTerminated == pc = "pipeline" /\ Terminated(kid[1])

\* both the parent and the right child are past their close calls
PastCloses ==
    /\ ppc \in {"wait1", "wait2", "done"}
    /\ kid[2].at \in {"ready", "prog", "zombie", "reaped"}

\* C14 as stated: in every state in which the left child has terminated, no
\* process holds the write end of the pipe.
C14_NoWriterOnceLeftTerminated ==
    LeftTerminated => WriteHolders = {}

\* C14 amended: in every interleaving (myshell and mypipeline), once the left child
\* has terminated and the parent and the right child are past their close
\* calls, no process holds the write end; after the left child has
\* terminated that comes to be, and a right child that reads to the end of
\* its input terminates and the parent leaves the pipeline code.
C14_RightChildSeesEndOfStream ==
    /\ [](LeftTerminated /\ PastCloses => WriteHolders = {})
    /\ (LeftTerminated ~> WriteHolders = {})
    /\ (LeftTerminated /\ pipeline.reads ~> pc # "pipeline")

\* a right program that reads to the end has run and ended, after the left
\* child, and the parent has collected both
C14_Witness ==
    /\ pc = "pipeline"
    /\ ppc = "done"
    /\ pipeline.reads
    /\ kid[2].ran
    /\ kid[1].ran
    /\ kid[2].rank = 2

\* C15: no step taken while a pipeline is run changes the job table, no
\* entry of the table is ever a stage of a pipeline, and no procs call
\* prints one.
C15_PipelineLeavesTableAlone ==
    [][/\ (pc = "pipeline" \/ pc' = "pipeline") /\ pc' # "exited" =>
            process_list' = process_list
       /\ \A i \in 1..Len(process_list') : process_list'[i].cmd.name \notin PipeNames
       /\ \A i \in 1..Len(printed') : printed'[i].name \notin PipeNames
      ]_vars

\* a pipeline has run to its end next to an entry of the job table
C15_Witness ==
    /\ pc = "pipeline"
    /\ pipeline.prog = "myshell"
    /\ ppc = "done"
    /\ Len(process_list) > 0
    /\ kid[1].ran /\ kid[2].ran

\* the stage has come to its execvp call
ReachedExec(c) == ~Rejected(c) /\ kid[c].at \in {"prog", "zombie", "reaped"}

\* C16: a stage carrying the redirect the pipeline does not allow never
\* executes its program and exits with status 1; the other stage still
\* comes to its execvp; the shell leaves the pipeline code only with both
\* children collected, and does leave it when both stages are rejected.
C16_RedirectRejected ==
    /\ [](\A c \in {1, 2} : pc = "pipeline" /\ Rejected(c) =>
            /\ ~kid[c].ran
            /\ kid[c].at # "prog"
            /\ Terminated(kid[c]) => kid[c].code = 1)
    /\ [][pc = "pipeline" /\ pc' = "prompt" /\ (Rejected(1) \/ Rejected(2)) =>
            kid[1].at = "reaped" /\ kid[2].at = "reaped"]_vars
    /\ (pc = "pipeline" /\ Rejected(1) /\ ~Rejected(2) ~> ReachedExec(2) \/ pc # "pipeline")
    /\ (pc = "pipeline" /\ Rejected(2) /\ ~Rejected(1) ~> ReachedExec(1) \/ pc # "pipeline")
    /\ (pc = "pipeline" /\ Rejected(1) /\ Rejected(2) ~> pc # "pipeline")

\* the left stage was rejected, the right one ran its program, and the
\* parent has collected both
C16_Witness ==
    /\ pc = "pipeline"
    /\ ppc = "done"
    /\ Rejected(1)
    /\ kid[1].code = 1
    /\ ~kid[1].ran
    /\ kid[2].ran

Signals == {"SIGCONT", "SIGKILL", "SIGTSTP"}

\* the handler leaves the children and the job table alone and the shell
\* at the prompt
NothingSent ==
    /\ os' = os
    /\ process_list' = process_list
    /\ pc' = "prompt"

\* C17: for each of alarm, blast and sleep, with the argument missing or no
\* valid pid (text that is no number, which atoi turns into 0) no signal is
\* delivered, the job table is unchanged and the shell goes on to the next
\* prompt; with a pid that names no process the same holds.
C17_InvalidArgumentSendsNothing ==
    [][\A sig \in Signals :
        /\ \A arg \in {NoArg, 0} : SignalBuiltin(sig, arg) => NothingSent
        /\ \A arg \in Pids :
                SignalBuiltin(sig, arg) /\ KillResult(os, arg) = -1 => NothingSent
      ]_vars

\* the part of C17 that holds: the argument missing, or a pid that names no
\* process
C17_MissingArgumentOrNoSuchPid ==
    [][\A sig \in Signals :
        /\ SignalBuiltin(sig, NoArg) => NothingSent
        /\ \A arg \in Pids :
                SignalBuiltin(sig, arg) /\ KillResult(os, arg) = -1 => NothingSent
      ]_vars

\* C18: alarm, blast and sleep leave the job table as it is, the status of
\* the entry they aim at included; a step other than a procs call leaves
\* the table alone or puts one new entry, Running, at its head; status
\* changes are recorded by procs calls only.
C18_SignalsLeaveTableAlone ==
    [][/\ \/ process_list' = process_list
          \/ pc' = "exited"
          \/ /\ \A sig \in Signals, arg \in Args : ~SignalBuiltin(sig, arg)
             /\ \/ /\ Len(process_list') = Len(process_list) + 1
                   /\ Tail(process_list') = process_list
                   /\ Head(process_list').status = RUNNING
                \/ Procs
       /\ writes' = {} \/ Procs
      ]_vars

\* sleep has just stopped a tracked job whose entry still says Running
C18_Witness ==
    \E i \in 1..Len(process_list) :
        /\ lastSig[process_list[i].pid] = "stop"
        /\ os[process_list[i].pid].st = "stopped"
        /\ process_list[i].status = RUNNING
        /\ ~process_list[i].cmd.blocking
        /\ lastOp = "other"

RECURSIVE Queries(_, _, _, _)
\* what the waitpid calls of one pass over the table answer, entry by entry
\* from index i on: <<[res, status]>>
Queries(list, o, i, status) ==
    IF i > Len(list) THEN <<>>
    ELSE LET w == WaitNoHang(o, list[i].pid, status)
         IN  <<[res |-> w.res, status |-> w.status]>>
                \o Queries(list, w.os, i + 1, w.status)

\* the status C19 gives for the answer q of a query that did not fail
Reported(q) ==
    IF q.res = 0 THEN RUNNING
    ELSE IF q.status \in {"exited", "signaled"} THEN TERMINATED
    ELSE IF q.status = "stopped" THEN SUSPENDED
    ELSE RUNNING

\* C19: one reconciliation pass queries each entry once, in table order, and
\* gives it the status its own query reports -- Running for no pending
\* change, Terminated for an exit or a death by signal, Suspended for a
\* stop, Running for a continue -- and changes nothing else of the table.
C19_PassFollowsQueries ==
    pc = "prompt" =>
        LET u == UpdateProcessList(debug, process_list, os)
            q == Queries(process_list, os, 1, StatusZero)
        IN  /\ Len(u.list) = Len(process_list)
            /\ Len(q) = Len(process_list)
            /\ \A i \in 1..Len(process_list) :
                /\ u.list[i].pid = process_list[i].pid
                /\ u.list[i].cmd = process_list[i].cmd
                /\ q[i].res >= 0 => u.list[i].status = Reported(q[i])

\* a table whose next pass is answered a stop for one entry, a termination
\* for another and no change for a third
C19_Witness ==
    /\ pc = "prompt"
    /\ LET q == Queries(process_list, os, 1, StatusZero)
       IN  \E i, j, k \in 1..Len(q) :
            /\ q[i].res > 0 /\ q[i].status = "stopped"
            /\ q[j].res > 0 /\ q[j].status \in {"exited", "signaled"}
            /\ q[k].res = 0

\* the step forks no process and creates no pipe
NoForkNoPipe ==
    /\ \A p \in Pids : os[p].st = "free" => os'[p].st = "free"
    /\ kid' = kid
    /\ pipefd' = pipefd
    /\ ppc' = ppc
    /\ pc' \notin {"wait", "pipeline"}
    /\ Len(process_list') <= Len(process_list)

\* C20: when arguments[0] is cd, alarm, blast, procs, sleep or history,
\* execute() runs the handler of that name and forks no process and creates
\* no pipe, whatever the second stage and the redirects of the command.
C20_BuiltinsNeverForkOrPipe ==
    [][pc = "prompt" =>
        /\ NoForkNoPipe \/ \A cmd \in BuiltinLines : ~Execute(cmd)
        /\ \A cmd \in BuiltinLines :
                Execute(cmd) =>
                    \/ cmd.name \in {"cd", "history"} /\ PlainBuiltin(cmd)
                    \/ cmd.name = "alarm" /\ HandleAlarmCommand(cmd.arg)
                    \/ cmd.name = "blast" /\ HandleBlastCommand(cmd.arg)
                    \/ cmd.name = "sleep" /\ HandleSleepCommand(cmd.arg)
                    \/ cmd.name = "procs" /\ Procs
      ]_vars

\* history typed as the left side of a pipe has run as the built-in, next
\* to a job in the table
C20_Witness ==
    /\ lastOp = "history|"
    /\ pc = "prompt"
    /\ Len(process_list) > 0
    /\ pipeline = NoPipeline

\* pipe() or a fork() of the shell fails
CreationFails ==
    \/ ForkFails
    \/ PipeFails
    \/ PipeForkFails /\ pipeline.prog = "myshell"

\* C21: when pipe() or any fork fails (single command, first or second
\* child of a pipeline) the shell terminates with a non-zero exit status,
\* adds no job entry, and no child created by the operation is left alive.
C21_FailureLeavesNoChild ==
    [][CreationFails =>
            /\ pc' = "exited"
            /\ exitCode' # 0
            /\ Len(process_list') <= Len(process_list)
            /\ \A c \in {1, 2} : kid'[c].at # "orphan"
      ]_vars

\* the part of C21 that holds: the shell terminates with a non-zero exit
\* status and adds no job entry, and a failure of pipe(), of the fork of a
\* single command or of the first fork of a pipeline leaves no child
C21_FailureExitsNonZero ==
    [][CreationFails =>
            /\ pc' = "exited"
            /\ exitCode' # 0
            /\ Len(process_list') <= Len(process_list)
            /\ ppc # "forked1" => \A c \in {1, 2} : kid'[c].at # "orphan"
      ]_vars

\* C22: -d does not alter control flow: each step of a run with -d leaves
\* the job table, the children, the lines printed and the position of the
\* shell as the same step of a run without -d does, and the flag itself
\* never changes once the prompt loop runs.
C22_DebugLeavesControlFlow ==
    [][/\ lastOp' = "procs" /\ Procs =>
            LET p == PrintProcessList(~debug, process_list, os)
            IN  /\ process_list' = p.list
                /\ os' = p.os
                /\ printed' = p.out
                /\ writes' = p.log
       /\ Len(process_list') = Len(process_list) + 1 =>
            \A name \in Names, blocking \in BOOLEAN, pid \in Pids :
                ExecuteSingleCommand(name, blocking, pid) =>
                    LET parent == ParentBranch(~debug, process_list, name, blocking, pid)
                    IN  /\ process_list' = parent.list
                        /\ pc' = (IF parent.wait THEN "wait" ELSE "prompt")
                        /\ waitPid' = (IF parent.wait THEN pid ELSE 0)
       /\ debug' = debug \/ DebugFlag
       /\ diag' # <<>> => debug
      ]_vars

\* under -d a procs call has reported on stderr a status update and a
\* deletion, in a table with two entries of one pid
C22_Witness ==
    /\ debug
    /\ lastOp = "procs"
    /\ \E i, j \in 1..Len(diag) :
            /\ diag[i].fn = "updateProcessStatus"
            /\ diag[j].fn = "deleteProcess"
    /\ \E i, j \in 1..Len(printed) : i # j /\ printed[i].pid = printed[j].pid

(* ---------------------------------------------------------------- *)
(* Leaving the prompt loop                                            *)
(* ---------------------------------------------------------------- *)
\* C23: at the prompt, whatever the job table holds, quit and the end of the
\* input can both be taken; either one ends the loop with exit code 0, and
\* the step sends no signal to and waits for no job: every process, tracked
\* or not, is in the state it had before the step, zombies unreaped
C23_LoopEndsWithoutSignalOrWait ==
    [][/\ pc = "prompt" => ENABLED Quit /\ ENABLED EndOfInput
       /\ Quit \/ EndOfInput =>
            /\ pc' = "exited"
            /\ exitCode' = 0
            /\ os' = os
      ]_vars

\* the shell has left the loop on the end of the input with exit code 0 while
\* one job is still running and another is an unreaped zombie
C23_Witness ==
    /\ pc = "exited"
    /\ exitCode = 0
    /\ lastOp = "eof"
    /\ \E p, q \in Pids : os[p].st = "running" /\ Zombie(os, q)

(* ---------------------------------------------------------------- *)
(* updateProcessStatus and the removal loop on any table               *)
(* ---------------------------------------------------------------- *)
\* the entries at or after index from whose pid is pid
Matches(list, from, pid) == {j \in from..Len(list) : list[j].pid = pid}

\* C24: updateProcessStatus called with a pid that no entry from the given
\* node on holds returns the table as it was and writes no line, with or
\* without -d; called with a pid that some entry holds it returns the table
\* with the status of the first such entry set and every other entry, and the
\* pid and command of that entry, as they were.
C24_UpdateProcessStatusFrame ==
    \A from \in 1..(MaxJobs + 1), pid \in Pids, status \in {TERMINATED, RUNNING, SUSPENDED} :
        LET u == UpdateProcessStatus(debug, process_list, from, pid, status)
            m == Matches(process_list, from, pid)
        IN  IF m = {}
            THEN u.list = process_list /\ u.err = <<>>
            ELSE LET k == CHOOSE j \in m : \A i \in m : j <= i
                 IN  /\ Len(u.list) = Len(process_list)
                     /\ u.list[k] = [process_list[k] EXCEPT !.status = status]
                     /\ \A j \in 1..Len(process_list) : j # k => u.list[j] = process_list[j]

\* a call has changed the status of one entry and left a later entry with the
\* same pid and another status as it was
C24_Witness ==
    /\ lastOp = "updateProcessStatus"
    /\ \E w \in writes :
        /\ writes = {w}
        /\ \E j \in (w[1] + 1)..Len(process_list) :
            /\ process_list[j].pid = process_list[w[1]].pid
            /\ process_list[j].status # w[3]

NotTerminatedEntry(e) == e.status # TERMINATED

\* C25: the removal loop returns the table without its TERMINATED entries,
\* wherever they are, and with every other entry as it was and in the order
\* it had; it reads no node that it has freed; and the loop of procs, which
\* goes by place in the table, returns the same table and writes the same
\* lines.
C25_RemovalLoopRemovesExactlyTerminated ==
    LET r == RemovalLoop(debug, process_list)
        q == RemovePass(debug, process_list, 1, <<>>)
    IN  /\ r.list = SelectSeq(process_list, NotTerminatedEntry)
        /\ ~r.stale
        /\ q.list = r.list
        /\ q.err = r.err

\* the loop has run under -d on a full table and has removed all of its
\* entries but one, some of them next to each other
C25_Witness ==
    /\ lastOp = "removal"
    /\ Len(process_list) = 1
    /\ debug
    /\ Len(diag) = MaxJobs - 1
    /\ \A i \in 1..Len(diag) : diag[i].fn = "deleteProcess"

(* ---------------------------------------------------------------- *)
(* What procs prints                                                  *)
(* ---------------------------------------------------------------- *)
\* the status entry i has once the reconciliation has made the changes in log
Assigned(list, log, i) ==
    IF \E w \in log : w[1] = i
    THEN (CHOOSE w \in log : w[1] = i)[3]
    ELSE list[i].status

\* C26: a procs call prints one line for each entry the table holds when it
\* is called, the i-th line for the i-th entry, with the pid and program
\* name of the entry and the status this call's reconciliation gave it (the
\* one it had when the reconciliation left it alone); and a launch puts its
\* entry ahead of all the entries there were, so that table order is most
\* recent first.
C26_ProcsPrintsTableInOrder ==
    [][/\ lastOp' = "procs" /\ Procs =>
            /\ Len(printed') = Len(process_list)
            /\ \A i \in 1..Len(process_list) :
                /\ printed'[i].pid = process_list[i].pid
                /\ printed'[i].name = process_list[i].cmd.name
                /\ printed'[i].status = StatusWord(Assigned(process_list, writes', i))
       /\ Len(process_list') = Len(process_list) + 1 => Tail(process_list') = process_list
      ]_vars

\* a procs call has printed three lines, and the status of the second is one
\* that this call gave its entry
C26_Witness ==
    /\ lastOp = "procs"
    /\ Len(printed) = 3
    /\ \E w \in writes : w[1] = 2 /\ printed[2].status = StatusWord(w[3])
    /\ printed[1].status # printed[2].status

(* ---------------------------------------------------------------- *)
(* The foreground wait and the background jobs                        *)
(* ---------------------------------------------------------------- *)
\* C27: while the shell is blocked on a foreground child no step collects
\* another child, and the step that ends the wait leaves every other process
\* and the whole table as they were; a terminated child that is not the one
\* waited for stays uncollected until a procs call; and a procs call prints
\* a background entry whose child has terminated as Terminated and one whose
\* child has an unreported stop as Suspended.
C27_ForegroundWaitCollectsOwnPidOnly ==
    [][/\ pc = "wait" =>
            \A p \in Pids \ {waitPid} : Zombie(os, p) => os'[p] = os[p]
       /\ pc = "wait" /\ pc' = "prompt" =>
            /\ \A p \in Pids \ {waitPid} : os'[p] = os[p]
            /\ process_list' = process_list
       /\ pc = "prompt" /\ lastOp' # "procs" /\ pc' # "exited" =>
            \A p \in Pids : Zombie(os, p) => os'[p] = os[p]
       /\ lastOp' = "procs" /\ Procs =>
            \A i \in 1..Len(process_list) :
                ~process_list[i].cmd.blocking =>
                    /\ Zombie(os, process_list[i].pid) =>
                            printed'[i].status = "Terminated"
                    /\ os[process_list[i].pid].ev = "stopped" =>
                            printed'[i].status = "Suspended"
      ]_vars

\* the wait for the foreground child has returned and has left a background
\* job that terminated uncollected, its entry still Running
C27_Witness ==
    /\ pc = "prompt"
    /\ Len(process_list) > 1
    /\ process_list[1].cmd.blocking
    /\ os[process_list[1].pid].st = "free"
    /\ \E i \in 2..Len(process_list) :
        /\ ~process_list[i].cmd.blocking
        /\ Zombie(os, process_list[i].pid)
        /\ process_list[i].status = RUNNING

(* ---------------------------------------------------------------- *)
(* Failures in the child of a single command                          *)
(* ---------------------------------------------------------------- *)
\* C28: a child whose input redirection failed has exited with a non-zero
\* code, has run no program, and the file its output redirection names is
\* as it was, neither created nor emptied; a child whose output redirection
\* or whose execvp failed has exited with a non-zero code and has run no
\* program; the entry of the child is in the table whatever failed; and a
\* shell blocked on a child that has exited can return, and returns to the
\* prompt.
C28_ChildFailuresLeaveParentUnaffected ==
    [][/\ child'.failed \in {"open input", "dup2 input"} =>
            /\ child'.at = "exited" /\ child'.code # 0 /\ ~child'.ran
            /\ Zombie(os', child'.pid) \/ os'[child'.pid].st = "free"
            /\ target' \in {"absent", "old"}
       /\ child'.failed \in {"open output", "dup2 output", "execvp"} =>
            /\ child'.at = "exited" /\ child'.code # 0 /\ ~child'.ran
            /\ Zombie(os', child'.pid) \/ os'[child'.pid].st = "free"
       /\ child'.at = "forked" /\ child.at # "forked" =>
            /\ process_list' = <<process_list'[1]>> \o process_list
            /\ process_list'[1].pid = child'.pid
            /\ process_list'[1].status = RUNNING
       /\ child'.failed # "none" /\ child.failed = "none" =>
            /\ process_list' = process_list
            /\ \E i \in 1..Len(process_list) : process_list[i].pid = child.pid
            /\ pc' = pc
       /\ pc = "wait" /\ waitPid = child.pid /\ child.at = "exited" =>
            /\ ENABLED WaitReturns
            /\ pc' = "prompt" \/ UNCHANGED vars
      ]_vars

\* the input redirection of a foreground command with an output redirection
\* has failed: the child has exited, the file is there untouched, and the
\* shell is back at the prompt with the entry in the table
C28_Witness ==
    /\ child.failed = "open input"
    /\ child.outputRedirect
    /\ target = "old"
    /\ pc = "prompt"
    /\ Len(process_list) > 0
    /\ process_list[1].pid = child.pid
    /\ process_list[1].cmd.blocking
    /\ os[child.pid].st = "free"

(* ---------------------------------------------------------------- *)
(* One entry of a pass taken on its own                               *)
(* ---------------------------------------------------------------- *)
\* C29: the status a reconciliation pass gives the entry at index i is the
\* status a pass gives that entry when it is the only one in the table and
\* the OS answers for its pid what it answers in the full pass (the children
\* being as the queries for the entries before i have left them).
C29_StatusDependsOnOwnQueryOnly ==
    pc = "prompt" =>
        \A i \in 1..Len(process_list) :
            LET before == UpdateProcessList(debug, SubSeq(process_list, 1, i - 1), os)
                alone == UpdateProcessList(debug, <<process_list[i]>>, before.os)
                full == UpdateProcessList(debug, process_list, os)
            IN  full.list[i].status = alone.list[1].status

(* ---------------------------------------------------------------- *)
(* What the table holds                                               *)
(* ---------------------------------------------------------------- *)
\* C30: as long as the shell runs, a single command launched puts one entry,
\* Running, ahead of the entries there are, whether it is waited for or not;
\* a procs call leaves the entries it did not print as Terminated, one for
\* one and in order; and no other step changes the table, so that the entry
\* of a foreground command is there, Running, when the wait for its child
\* has returned.
C30_TableHoldsLaunchedNotPrintedTerminated ==
    [][pc' # "exited" =>
        /\ pc = "prompt" =>
                \A pid \in Pids :
                    os[pid].st = "free" /\ os'[pid].st = "running" =>
                        \A name \in Names, blocking \in BOOLEAN :
                            ExecuteSingleCommand(name, blocking, pid) =>
                                /\ Len(process_list') = Len(process_list) + 1
                                /\ Tail(process_list') = process_list
                                /\ process_list'[1].pid = pid
                                /\ process_list'[1].status = RUNNING
        /\ lastOp' = "procs" /\ Procs =>
                /\ Len(printed') = Len(process_list)
                /\ \A i \in 1..Len(process_list) : printed'[i].pid = process_list[i].pid
                /\ PrintLines(process_list') = SelectSeq(printed', NotTerminated)
        /\ process_list' # process_list =>
                \/ lastOp' = "procs" /\ Procs
                \/ \E name \in Names, blocking \in BOOLEAN, pid \in Pids :
                        ExecuteSingleCommand(name, blocking, pid)
        /\ pc = "wait" /\ pc' = "prompt" =>
                /\ Len(process_list') > 0
                /\ process_list'[1].pid = waitPid
                /\ process_list'[1].status = RUNNING
      ]_vars

\* the shell is at the prompt after a procs call, and the table holds the
\* entry of a foreground command launched since, Running, its child exited
\* and collected, ahead of the entry of a background job
C30_Witness ==
    /\ pc = "prompt"
    /\ Len(process_list) > 1
    /\ process_list[1].cmd.blocking
    /\ process_list[1].status = RUNNING
    /\ os[process_list[1].pid].st = "free"
    /\ ~process_list[2].cmd.blocking
    /\ process_list[2].status = SUSPENDED

(* ---------------------------------------------------------------- *)
(* The indices of the history ring                                    *)
(* ---------------------------------------------------------------- *)
\* C31: after any sequence of appends and recalls history_count is in
\* 0..HISTLEN, history_start and history_end are in 0..HISTLEN - 1,
\* history_end is (history_start + history_count) mod HISTLEN, and
\* history_start is 0 as long as history_count is below HISTLEN.
C31_RingIndicesConsistent ==
    /\ history_count \in 0..HISTLEN
    /\ history_start \in 0..(HISTLEN - 1)
    /\ history_end \in 0..(HISTLEN - 1)
    /\ history_end = (history_start + history_count) % HISTLEN
    /\ history_count < HISTLEN => history_start = 0

\* the ring is full and has evicted its two oldest lines, the last of the
\* lines appended being a recalled one
C31_Witness ==
    /\ history_count = HISTLEN
    /\ history_start = 2
    /\ history_end = 2
    /\ typed.kind # "line"
    /\ parsed # NullLine

(* ---------------------------------------------------------------- *)
(* The append and what follows it                                     *)
(* ---------------------------------------------------------------- *)
\* C32: an iteration whose line is not a failed recall appends the line (for
\* a recall, the line recalled) once -- one line more handed to
\* addToHistory, one slot of the ring written, the newest -- and hands that
\* same line to the parser; this is so for a blank line, after which the
\* shell is at the prompt with nothing run, for quit, after which it has
\* exited, and for history, whose listing ends with its own line.
C32_EveryLineAppendedOnceBeforeParse ==
    [][~FailedRecallTyped /\ vars' # vars =>
            /\ Len(appended') = Len(appended) + 1
            /\ parsed' = appended'[Len(appended')]
            /\ history_count' = Min(history_count + 1, HISTLEN)
            /\ history_end' = (history_end + 1) % HISTLEN
            /\ history'[history_end] = Strncpy(parsed')
            /\ \A k \in 0..(HISTLEN - 1) : k # history_end => history'[k] = history[k]
            /\ Says(parsed') = "blank" => pc' = "prompt" /\ lastOp' = "none parsed"
            /\ Says(parsed') = "quit" => pc' = "exited" /\ exitCode' = 0
            /\ Says(parsed') = "history" =>
                    /\ Len(printed') = history_count'
                    /\ printed'[Len(printed')] = <<history_count', Strncpy(parsed')>>
      ]_vars

\* a ring that has evicted lines, a blank one among those it holds, and whose
\* newest line is the history command just run, the last line of its listing
C32_Witness ==
    /\ Says(parsed) = "history"
    /\ lastOp = "history"
    /\ Len(appended) > HISTLEN + 1
    /\ Len(printed) = HISTLEN
    /\ printed[HISTLEN][2] = Strncpy(parsed)
    /\ \E i \in 1..(HISTLEN - 1) : Says(printed[i][2]) = "blank"

\* a stage of the pipeline that is a living process
StageAlive(k) == k.at \in {"forked", "dup", "closed", "ready", "prog"}

\* C33: in a pipeline only the pipe is wired.  After every step, the left
\* stage, while it lives, has its standard input neither on the pipe nor on
\* the file its inputRedirect names, and the right stage has its standard
\* output neither on the pipe nor on the file its outputRedirect names: both
\* are still the streams the shell was started with.  A stage whose program
\* runs holds exactly one descriptor beyond those: its standard output on
\* the write end (left), its standard input on the read end (right).  And
\* no step of the pipeline, of the parent or of a stage, creates or empties
\* the file the right stage's outputRedirect names: the file changes only in
\* steps that leave the pipeline as it is.
C33_OnlyThePipeIsWired ==
    [][/\ StageAlive(kid'[1]) => kid'[1].fds \cap {"in", "fin", "fout"} = {}
       /\ StageAlive(kid'[2]) => kid'[2].fds \cap {"out", "fin", "fout"} = {}
       /\ kid'[1].at = "prog" => kid'[1].fds = {"out"}
       /\ kid'[2].at = "prog" /\ pipeline'.prog = "myshell" => kid'[2].fds = {"in"}
       /\ pipevars' # pipevars => target' = target
      ]_vars

\* a pipeline whose left stage names an input file and whose right stage
\* names an output file that does not exist: both programs have run to
\* their end, the parent has collected them, and the file is still absent
C33_Witness ==
    /\ pc = "pipeline"
    /\ ppc = "done"
    /\ pipeline.leftIn /\ pipeline.rightOut
    /\ ~pipeline.leftOut /\ ~pipeline.rightIn
    /\ kid[1].ran /\ kid[2].ran
    /\ kid[1].code = 0 /\ kid[2].code = 0
    /\ target = "absent"

====
